---------------------------- MODULE Spec2Model ----------------------------
(***************************************************************************)
(* A model of the Chord node of viyer28/chrust: src/src/hash.rs (ring      *)
(* arithmetic), src/src/node.rs (Node, the local state and the Chord       *)
(* operations on it), src/src/handler.rs (the message handler and the      *)
(* periodic stabilizer) and src/src/msg.rs (the frames).                   *)
(*                                                                         *)
(* The broker is not part of the repository.  It is modelled as one FIFO   *)
(* inbox per subscribed node, filled in the order in which the frames were *)
(* sent (send_to_broker is synchronous), a log of the frames that are      *)
(* addressed to the client, and it drops a frame whose addressee is not    *)
(* subscribed.                                                             *)
(*                                                                         *)
(* Option<T> is modelled as a sequence of length at most one.              *)
(***************************************************************************)
EXTENDS Integers, Sequences, FiniteSets, TLC

\* ------------------------------------------------------------------ bounds

\* the stabilizer ticks a node may take in one behaviour
MaxTicks == 1
\* the hello frames the broker may publish to one node
MaxHello == 1
\* the timer periods of a behaviour in which the periods are modelled
MaxRounds == 2
\* the client requests (set and get together) in one behaviour
MaxRequests == 3
\* the timer periods of a behaviour in which a node stops answering
MaxFailRounds == 3
\* the hello frames the broker may publish to the node whose threads are
\* modelled: each spawns a stabilizer thread
MaxLockHello == 2
\* the largest ring id, where a function of ring ids is applied on its own
MaxId == 15

\* ------------------------------------------------------ program constants

M == 8
FAILURE_THRESHOLD == 2

\* ------------------------------------------------------------- Option<T>

None == << >>
Some(x) == << x >>
IsSome(o) == Len(o) = 1
Unwrap(o) == o[1]

\* ------------------------------------------------------------- hash.rs

\* hash::hash: the last byte of the SHA-1 digest of the string.  The table
\* holds the digests' last bytes of the strings the model uses.
hash(key) ==
  CASE key = "a" -> 184
    [] key = "b" -> 152
    [] key = "c" -> 180
    [] key = "apple" -> 64
    [] key = "banana" -> 168
    [] key = "plum" -> 192
    [] key = "n3" -> 24
    [] key = "n53" -> 255
    [] key = "r" -> 183
    [] key = "corn" -> 192

\* in_range with the lower bound inside the interval
in_range_closed(id, min, max, incl) ==
  IF min < max
    THEN IF incl THEN id >= min /\ id <= max ELSE id >= min /\ id < max
    ELSE IF min > max
      THEN IF incl THEN id >= min \/ id <= max ELSE id >= min \/ id < max
      ELSE TRUE

\* in_range with an interval that does not wrap around zero
in_range_unwrapped(id, min, max, incl) ==
  IF min < max
    THEN IF incl THEN id > min /\ id <= max ELSE id > min /\ id < max
    ELSE IF min > max
      THEN IF incl THEN id > min /\ id <= max ELSE id > min /\ id < max
      ELSE TRUE

\* hash::in_range
in_range(id, min, max, incl) ==
  IF min < max
    THEN IF incl THEN id > min /\ id <= max ELSE id > min /\ id < max
    ELSE IF min > max
      THEN IF incl THEN id > min \/ id <= max ELSE id > min \/ id < max
      ELSE TRUE

\* ------------------------------------------------- node.rs: the entries

NodeEntry(id, node_name) == [id |-> id, node_name |-> node_name]

FingerEntry(start, id, node_name) ==
  [start |-> start, node |-> NodeEntry(id, node_name)]

SuccessorEntry(id, node_name) ==
  [node |-> NodeEntry(id, node_name), failed |-> TRUE]

\* QueryType; a variant without payload carries empty strings
QueryType(kind, key, value) == [kind |-> kind, key |-> key, value |-> value]

\* TransferType
TransferGet(min, max) == [kind |-> "Get", min |-> min, max |-> max, name |-> ""]
TransferSend(min, max, name) == [kind |-> "Send", min |-> min, max |-> max, name |-> name]
TransferDuplicate == [kind |-> "Duplicate", min |-> 0, max |-> 0, name |-> ""]
TransferNothing == [kind |-> "Nothing", min |-> 0, max |-> 0, name |-> ""]

\* 2^n
RECURSIVE Pow2(_)
Pow2(n) == IF n = 0 THEN 1 ELSE 2 * Pow2(n - 1)

\* f64::ceil(f64::log2(x)) for an integer x >= 1
RECURSIVE CeilLog2From(_, _)
CeilLog2From(x, t) == IF Pow2(t) >= x THEN t ELSE CeilLog2From(x, t + 1)

\* Handler::new: the length of the successor list
tau(peer_names) == CeilLog2From(Len(peer_names) + 1, 0)

\* Node::new
NewNode(m, node_name, id, tau_) ==
  [ id |-> NodeEntry(id, node_name),
    finger_table |->
      [i \in 0 .. (m - 1) |-> FingerEntry((id + Pow2(i)) % Pow2(m), id, node_name)],
    successor |-> NodeEntry(id, node_name),
    predecessor |-> Some(NodeEntry(id, node_name)),
    successor_list |-> [i \in 1 .. tau_ |-> SuccessorEntry(id, node_name)],
    store |-> << >>,
    replica_store |-> << >>,
    current_queries |-> << >>,
    last_failed_successor |-> None ]

\* ------------------------------------------ maps (HashMap<K, V>)

\* HashMap::insert
Insert(map, k, v) == (k :> v) @@ map
\* HashMap::remove
Remove(map, k) == [x \in (DOMAIN map) \ {k} |-> map[x]]
\* HashMap::extend: the entries of more replace those of map
Extend(map, more) == more @@ map
\* the entries of map whose key is in keys
Restrict(map, keys) == [x \in (DOMAIN map) \cap keys |-> map[x]]

\* ------------------------------------------------- node.rs: operations

\* Node::set_successor indexes successor_list[0] and finger_table[0]
set_successor_panics(nd) == Len(nd.successor_list) = 0

set_successor(nd, succ) ==
  [nd EXCEPT !.finger_table[0].node = succ,
             !.successor_list[1] = [node |-> succ, failed |-> FALSE],
             !.successor = succ]

\* Node::set_predecessor; pred is an Option<NodeEntry>
set_predecessor(nd, pred) ==
  IF ~IsSome(nd.predecessor)
    THEN IF IsSome(pred)
           THEN [node |-> [nd EXCEPT !.predecessor = pred],
                 transfer |-> TransferGet(Unwrap(pred).id, nd.id.id)]
           ELSE [node |-> nd, transfer |-> TransferNothing]
    ELSE IF IsSome(pred)
           THEN [node |-> [nd EXCEPT !.predecessor = pred],
                 transfer |->
                   IF Unwrap(pred).node_name # nd.id.node_name
                     THEN TransferSend(Unwrap(nd.predecessor).id, Unwrap(pred).id,
                                       Unwrap(pred).node_name)
                     ELSE TransferNothing]
           ELSE [node |-> [nd EXCEPT !.predecessor = None],
                 transfer |-> TransferNothing]

\* Node::closest_preceding_finger
RECURSIVE closest_from(_, _, _)
closest_from(nd, id, i) ==
  IF i < 0 THEN nd.id
  ELSE IF in_range(nd.finger_table[i].node.id, nd.id.id, id, FALSE)
         THEN nd.finger_table[i].node
         ELSE closest_from(nd, id, i - 1)

\* closest_preceding_finger that scans the finger table from index 0 up
closest_preceding_finger_lowest(nd, id) ==
  LET fits == {i \in DOMAIN nd.finger_table :
                 in_range(nd.finger_table[i].node.id, nd.id.id, id, FALSE)}
  IN IF fits = {} THEN nd.id
     ELSE nd.finger_table[CHOOSE i \in fits : \A j \in fits : i <= j].node

closest_preceding_finger(nd, id) == closest_from(nd, id, M - 1)

\* Node::find_predecessor
find_predecessor(nd, id) ==
  IF in_range(id, nd.id.id, nd.successor.id, TRUE)
    THEN [found |-> TRUE, node |-> nd.id]
    ELSE [found |-> FALSE, node |-> closest_preceding_finger(nd, id)]

\* Node::push_query
push_query(nd, query, type) ==
  [nd EXCEPT !.current_queries = Insert(nd.current_queries, query, type)]

\* Node::pop_query: the node without the entry (the entry is read before)
pop_query(nd, query) ==
  [nd EXCEPT !.current_queries = Remove(nd.current_queries, query)]

\* Node::stabilize_successor
stabilize_successor_panics(nd, pred_id) ==
  in_range(pred_id, nd.id.id, nd.successor.id, FALSE) /\ set_successor_panics(nd)

\* stabilize_successor that takes any predecessor of the successor
stabilize_successor_always(nd, pred_id, pred_name) ==
  set_successor(nd, NodeEntry(pred_id, pred_name))

stabilize_successor(nd, pred_id, pred_name) ==
  IF in_range(pred_id, nd.id.id, nd.successor.id, FALSE)
    THEN set_successor(nd, NodeEntry(pred_id, pred_name))
    ELSE nd

\* the orders in which a HashMap may yield the keys of S
RECURSIVE Orders(_)
Orders(S) ==
  IF S = {} THEN {<< >>}
  ELSE UNION {{<<x>> \o o : o \in Orders(S \ {x})} : x \in S}

RECURSIVE extend_in_order(_, _, _)
extend_in_order(store, replicas, order) ==
  IF order = << >> THEN store
  ELSE extend_in_order(Extend(store, replicas[Head(order)]), replicas, Tail(order))

\* transfer_from_replicas that leaves out the replica of the owner max
transfer_from_replicas_open(nd, min, max) ==
  LET owners == {r \in DOMAIN nd.replica_store : in_range(r, min, max, FALSE)}
  IN {[nd EXCEPT !.store = extend_in_order(nd.store, nd.replica_store, o)] :
        o \in Orders(owners)}

\* Node::transfer_from_replicas: the stores it may leave, one for each order
\* in which the HashMap yields the replica owners
transfer_from_replicas(nd, min, max) ==
  LET owners == {r \in DOMAIN nd.replica_store : in_range(r, min, max, TRUE)}
  IN {[nd EXCEPT !.store = extend_in_order(nd.store, nd.replica_store, o)] :
        o \in Orders(owners)}

\* stabilize_predecessor that takes any live notifier as the predecessor
stabilize_predecessor_any(nd, node_id, node_name, failed) ==
  IF IsSome(nd.predecessor) /\ failed
    THEN {[node |-> [n2 EXCEPT !.predecessor = Some(NodeEntry(node_id, node_name))],
           transfer |-> TransferDuplicate] :
            n2 \in transfer_from_replicas(nd, node_id, Unwrap(nd.predecessor).id)}
    ELSE {set_predecessor(nd, Some(NodeEntry(node_id, node_name)))}

\* Node::stabilize_predecessor: the set of possible [node, transfer]
stabilize_predecessor(nd, node_id, node_name, failed) ==
  IF IsSome(nd.predecessor)
    THEN IF failed
           THEN {[node |-> [n2 EXCEPT !.predecessor = Some(NodeEntry(node_id, node_name))],
                  transfer |-> TransferDuplicate] :
                   n2 \in transfer_from_replicas(nd, node_id, Unwrap(nd.predecessor).id)}
           ELSE IF in_range(node_id, Unwrap(nd.predecessor).id, nd.id.id, FALSE)
                  THEN {set_predecessor(nd, Some(NodeEntry(node_id, node_name)))}
                  ELSE {[node |-> nd, transfer |-> TransferNothing]}
    ELSE {set_predecessor(nd, Some(NodeEntry(node_id, node_name)))}

\* Node::get_finger_start
get_finger_start(nd, i) == nd.finger_table[i].start

\* Node::set_finger indexes finger_table[i]
set_finger_panics(nd, i) == i \notin DOMAIN nd.finger_table

set_finger(nd, i, entry) == [nd EXCEPT !.finger_table[i].node = entry]

\* transfer_kvs_range that leaves the key that hashes to max in the store
transfer_kvs_range_open(nd, min, max) ==
  LET keys == {k \in DOMAIN nd.store : in_range(hash(k), min, max, FALSE)}
  IN [node |-> [nd EXCEPT !.store = Restrict(nd.store, (DOMAIN nd.store) \ keys)],
      kvs |-> Restrict(nd.store, keys)]

\* Node::transfer_kvs_range
transfer_kvs_range(nd, min, max) ==
  LET keys == {k \in DOMAIN nd.store : in_range(hash(k), min, max, TRUE)}
  IN [node |-> [nd EXCEPT !.store = Restrict(nd.store, (DOMAIN nd.store) \ keys)],
      kvs |-> Restrict(nd.store, keys)]

\* live_successor_indexes that does not leave the last entry out
live_successor_indexes_all(nd) ==
  {i \in 0 .. (Len(nd.successor_list) - 1) : ~nd.successor_list[i + 1].failed}

\* Node::live_successor_indexes (0-based, as in the source)
live_successor_indexes(nd) ==
  {i \in 0 .. (Len(nd.successor_list) - 1) :
     ~nd.successor_list[i + 1].failed /\ i # Len(nd.successor_list) - 1}

\* Node::successor_at_index
successor_at_index(nd, i) == nd.successor_list[i + 1].node.id

\* Node::fix_successor indexes successor_list[i]
fix_successor_panics(nd, i) == i < 0 \/ i >= Len(nd.successor_list)

\* fix_successor that also duplicates to the node itself
fix_successor_to_self(nd, i, succ) ==
  LET old_succ == nd.successor_list[i + 1].node.node_name
      was_failed == nd.successor_list[i + 1].failed
  IN [node |-> [nd EXCEPT !.successor_list[i + 1] = [node |-> succ, failed |-> FALSE]],
      duplicate |-> old_succ # succ.node_name \/ was_failed]

fix_successor(nd, i, succ) ==
  LET old_succ == nd.successor_list[i + 1].node.node_name
      was_failed == nd.successor_list[i + 1].failed
  IN [node |-> [nd EXCEPT !.successor_list[i + 1] = [node |-> succ, failed |-> FALSE]],
      duplicate |-> (old_succ # succ.node_name \/ was_failed)
                      /\ succ.node_name # nd.id.node_name]

\* Node::set_for_replica
set_for_replica(nd, id, kvs) ==
  [nd EXCEPT !.replica_store = Insert(nd.replica_store, id, kvs)]

\* Node::live_successors
live_successors(nd) ==
  LET live == SelectSeq(nd.successor_list, LAMBDA s : ~s.failed)
  IN [i \in 1 .. Len(live) |-> live[i].node]

\* Node::duplicate_store: the keys and the values, paired
duplicate_store(nd) == nd.store

\* successor_failure that records the failed successor and keeps the list
successor_failure_keeps_list(nd) ==
  set_successor([nd EXCEPT !.last_failed_successor = Some(Head(nd.successor_list))],
                nd.successor_list[1].node)

\* Node::successor_failure removes successor_list[0]
successor_failure_panics(nd) == Len(nd.successor_list) = 0

successor_failure(nd) ==
  LET shifted == Append(Tail(nd.successor_list),
                        SuccessorEntry(nd.id.id, nd.id.node_name))
      n2 == [nd EXCEPT !.last_failed_successor = Some(Head(nd.successor_list)),
                       !.successor_list = shifted]
  IN set_successor(n2, shifted[1].node)

\* Node::get_failed_successor
get_failed_successor(nd) ==
  IF IsSome(nd.last_failed_successor)
    THEN Some(Unwrap(nd.last_failed_successor).node)
    ELSE None

\* Node::reset_failed_successor
reset_failed_successor(nd) == [nd EXCEPT !.last_failed_successor = None]


\* ----------------------------------------------------------- msg.rs

\* RcvdMessage: every field is optional.  keys and values travel as two
\* vectors that the receiver zips; kvs is the zipped map.
Blank ==
  [ type |-> "", key |-> None, value |-> None, id |-> None,
    destination |-> None, source |-> None, query_id |-> None,
    node_name |-> None, node_id |-> None, pred_id |-> None,
    pred_name |-> None, min |-> None, max |-> None, kvs |-> None,
    failed |-> None, error |-> None ]

Hello == [Blank EXCEPT !.type = "hello"]

HelloResponse(source) ==
  [Blank EXCEPT !.type = "helloResponse", !.source = Some(source)]

SetMsg(id, key, value) ==
  [Blank EXCEPT !.type = "set", !.id = Some(id), !.key = Some(key),
                !.value = Some(value)]

GetMsg(id, key) ==
  [Blank EXCEPT !.type = "get", !.id = Some(id), !.key = Some(key)]

SetResponse(id, key, value) ==
  [Blank EXCEPT !.type = "setResponse", !.id = Some(id), !.key = Some(key),
                !.value = Some(value)]

GetSuccessResponse(id, key, value) ==
  [Blank EXCEPT !.type = "getResponse", !.id = Some(id), !.key = Some(key),
                !.value = Some(value)]

\* the error text is "No such key: " + key; the model keeps the key
GetFailResponse(id, key) ==
  [Blank EXCEPT !.type = "getResponse", !.id = Some(id),
                !.error = Some(<<"No such key: ", key>>)]

Join(source, destination) ==
  [Blank EXCEPT !.type = "join", !.source = Some(source),
                !.destination = Some(destination)]

JoinAck(source, destination) ==
  [Blank EXCEPT !.type = "joinAck", !.source = Some(source),
                !.destination = Some(destination)]

FindSucc(source, destination, query_id, id) ==
  [Blank EXCEPT !.type = "findSucc", !.source = Some(source),
                !.destination = Some(destination),
                !.query_id = Some(query_id), !.id = id]

FindSuccResponse(source, destination, node_name, node_id, query_id, id) ==
  [Blank EXCEPT !.type = "findSuccResponse", !.source = Some(source),
                !.destination = Some(destination),
                !.node_name = Some(node_name), !.node_id = Some(node_id),
                !.query_id = Some(query_id), !.id = id]

GetPred(source, destination) ==
  [Blank EXCEPT !.type = "getPred", !.source = Some(source),
                !.destination = Some(destination)]

GetPredResponse(source, destination, pred_id, pred_name) ==
  [Blank EXCEPT !.type = "getPredResponse", !.source = Some(source),
                !.destination = Some(destination),
                !.pred_id = pred_id, !.pred_name = pred_name]

Notify(source, destination, node_id, failed) ==
  [Blank EXCEPT !.type = "notify", !.source = Some(source),
                !.destination = Some(destination),
                !.node_id = Some(node_id), !.failed = Some(failed)]

Retrieve(source, destination, key, id) ==
  [Blank EXCEPT !.type = "retrieve", !.source = Some(source),
                !.destination = Some(destination), !.key = Some(key),
                !.id = Some(id)]

Store(source, destination, key, value) ==
  [Blank EXCEPT !.type = "store", !.source = Some(source),
                !.destination = Some(destination), !.key = Some(key),
                !.value = Some(value)]

TransferRequest(source, destination, min, max) ==
  [Blank EXCEPT !.type = "transferRequest", !.source = Some(source),
                !.destination = Some(destination), !.min = Some(min),
                !.max = Some(max)]

TransferKeys(source, destination, kvs) ==
  [Blank EXCEPT !.type = "transferKeys", !.source = Some(source),
                !.destination = Some(destination), !.kvs = Some(kvs)]

Duplicate(source, destination, id, kvs) ==
  [Blank EXCEPT !.type = "duplicate", !.source = Some(source),
                !.destination = Some(destination), !.id = Some(id),
                !.kvs = Some(kvs)]

Ping(source, destination) ==
  [Blank EXCEPT !.type = "ping", !.source = Some(source),
                !.destination = Some(destination)]

Pong(source, destination) ==
  [Blank EXCEPT !.type = "pong", !.source = Some(source),
                !.destination = Some(destination)]

PingSelf(destination) ==
  [Blank EXCEPT !.type = "pingSelf", !.destination = Some(destination)]

PongSelf(destination) ==
  [Blank EXCEPT !.type = "pongSelf", !.destination = Some(destination)]

Rejoin(source, destination) ==
  [Blank EXCEPT !.type = "rejoin", !.source = Some(source),
                !.destination = Some(destination)]

RejoinAck(source, destination) ==
  [Blank EXCEPT !.type = "rejoinAck", !.source = Some(source),
                !.destination = Some(destination)]


\* ------------------------------------------------------------ the state

\* the node names of the model; hash gives their ring ids
Names == {"a", "b", "c", "n3", "n53", "r"}

VARIABLES
  status,       \* per name: "off" (not started), "up", "down" (stopped or cut
                \* off from the broker), "panicked" (the process has aborted)
  peer_names,   \* HandlerInner.peer_names, the configured --peer list
  node,         \* HandlerInner.node
  connected,    \* HandlerInner.connected
  pings,        \* HandlerInner.pings
  stabilizers,  \* the stabilizer threads periodic_stabilize has spawned,
                \* each with the timer period in which it was spawned
  pending,      \* the stabilizer ticks between their read and write phase
  inbox,        \* per name: the frames published to it and not yet read
  client,       \* the frames sent to the client, in order
  out,          \* the frames the last step handed to the broker, in order
  ticks,        \* the stabilizer ticks a node has begun; where the timer
                \* periods are modelled, the period of its last tick
  round,        \* the current timer period (of STABILIZE_TIME), 0 where the
                \* periods are not modelled
  hellos,       \* the hello frames published to a node
  requests,     \* the client requests sent so far, in order, each with
                \* whether every earlier frame had been handled by then
  lock,         \* the RwLock around HandlerInner of the node a: the threads
                \* that hold it shared, the thread that holds it exclusive,
                \* the threads parked for it, in order
  threads,      \* the threads of the node a, where its threads are
                \* modelled: their position and the frames they have yet to
                \* send before they unlock
  req_socket,   \* req_socket of the node a: the threads that have sent a
                \* frame on it and not yet received the acknowledgement
  call          \* where a function is applied on its own: its arguments
                \* and what it returned

\* the state of the lock, the threads and the request socket of a
sync == << lock, threads, req_socket >>

vars == << status, peer_names, node, connected, pings, stabilizers, pending,
           inbox, client, out, ticks, round, hellos, requests, lock, threads,
           req_socket, call >>

\* the threads of a node: the one in listen_to_publisher and the ones
\* periodic_stabilize spawns
Listener == 0
Stabilizers == 1 .. MaxLockHello
Threads == {Listener} \cup Stabilizers

\* where the threads of a are not modelled: each handler and each phase of a
\* tick is one step
Unlocked == [readers |-> {}, writer |-> << >>, queue |-> << >>]
NoThreads == [t \in Threads |-> [pc |-> "off", tosend |-> << >>, panic |-> FALSE]]
SyncInit ==
  lock = Unlocked /\ threads = NoThreads /\ req_socket = {} /\ call = << >>

\* the frames that go to the client rather than to a node
ClientTypes == {"helloResponse", "setResponse", "getResponse"}

\* the broker: a frame for a node that is up joins its inbox, in send order;
\* a frame for any other node is lost
RECURSIVE Route(_, _)
Route(frames, boxes) ==
  IF frames = << >> THEN boxes
  ELSE LET f == Head(frames)
           d == Unwrap(f.destination)
       IN Route(Tail(frames),
                IF f.type \notin ClientTypes /\ d \in Names /\ status[d] = "up"
                  THEN [boxes EXCEPT ![d] = Append(@, f)]
                  ELSE boxes)

ToClient(frames) == SelectSeq(frames, LAMBDA f : f.type \in ClientTypes)

\* ------------------------------------------------- handler.rs: helpers

\* the outcome of a handler or of a stabilizer phase at one node
Result(nd, pings_, connected_, out_, panic) ==
  [node |-> nd, pings |-> pings_, connected |-> connected_, out |-> out_,
   panic |-> panic]

\* an expect() on a missing field, or an index out of bounds: the thread
\* panics; nothing after the panic takes place
Panic(n, out_) == Result(node[n], pings[n], connected[n], out_, TRUE)

\* HandlerInner::join
join(n) == [i \in 1 .. Len(peer_names[n]) |-> Join(n, peer_names[n][i])]

\* HandlerInner::find_successor: the frame it sends
find_successor(nd, node_name, query_id, src, id) ==
  LET r == find_predecessor(nd, query_id)
  IN IF r.found
       THEN FindSuccResponse(node_name, src, nd.successor.node_name,
                             nd.successor.id, query_id, id)
       ELSE FindSucc(src, r.node.node_name, query_id, id)

\* duplicate_to_successors that does not leave the node itself out
duplicate_to_successors_all(nd, node_name) ==
  LET dest == live_successors(nd)
  IN [i \in 1 .. Len(dest) |->
        Duplicate(node_name, dest[i].node_name, nd.id.id, duplicate_store(nd))]

\* HandlerInner::duplicate_to_successors: the frames it sends
duplicate_to_successors(nd, node_name) ==
  LET live == live_successors(nd)
      dest == SelectSeq(live, LAMBDA s : s.node_name # node_name)
  IN [i \in 1 .. Len(dest) |->
        Duplicate(node_name, dest[i].node_name, nd.id.id, duplicate_store(nd))]

\* HandlerInner::stabilize_ring
stabilize_ring(nd, node_name) == GetPred(node_name, nd.successor.node_name)

\* HandlerInner::ping_self
ping_self(node_name) == PingSelf(node_name)

\* HandlerInner::heal_partition: the frames it sends
heal_partition(nd, node_name) ==
  LET last_fail == get_failed_successor(nd)
  IN IF IsSome(last_fail)
       THEN << Rejoin(node_name, Unwrap(last_fail).node_name) >>
       ELSE << >>

\* HandlerInner::fix_fingers with i the index the generator draws
fix_fingers(nd, node_name, i) ==
  LET query_id == get_finger_start(nd, i)
      n2 == push_query(nd, query_id, QueryType("FixFinger", "", ""))
  IN [node |-> n2,
      out |-> << find_successor(n2, node_name, query_id, node_name, Some(i)) >>]

\* HandlerInner::fix_successors with random_succ the live index drawn
fix_successors(nd, node_name, random_succ) ==
  LET query_id == successor_at_index(nd, random_succ) + 1
      n2 == push_query(nd, query_id, QueryType("FixSuccessor", "", ""))
  IN [node |-> n2,
      out |-> << find_successor(n2, node_name, query_id, node_name,
                                Some(random_succ + 1)) >>]

\* ping_successor that also pings when the successor is the node itself
ping_successor_pings_self(nd, pings_, node_name) ==
  IF pings_ < FAILURE_THRESHOLD
    THEN [node |-> nd, pings |-> pings_ + 1, panic |-> FALSE,
          out |-> << Ping(node_name, nd.successor.node_name) >>]
    ELSE IF successor_failure_panics(nd)
           THEN [node |-> nd, pings |-> pings_, panic |-> TRUE, out |-> << >>]
           ELSE LET n2 == successor_failure(nd)
                IN [node |-> n2, pings |-> 0, panic |-> FALSE,
                    out |-> << Notify(node_name, n2.successor.node_name,
                                      n2.id.id, TRUE) >>]

\* HandlerInner::ping_successor
ping_successor(nd, pings_, node_name) ==
  IF pings_ < FAILURE_THRESHOLD
    THEN IF nd.successor.node_name # node_name
           THEN [node |-> nd, pings |-> pings_ + 1, panic |-> FALSE,
                 out |-> << Ping(node_name, nd.successor.node_name) >>]
           ELSE [node |-> nd, pings |-> pings_, panic |-> FALSE, out |-> << >>]
    ELSE IF successor_failure_panics(nd)
           THEN [node |-> nd, pings |-> pings_, panic |-> TRUE, out |-> << >>]
           ELSE LET n2 == successor_failure(nd)
                IN [node |-> n2, pings |-> 0, panic |-> FALSE,
                    out |-> << Notify(node_name, n2.successor.node_name,
                                      n2.id.id, TRUE) >>]


\* ------------------------------- handler.rs: the arms of handle_messages
\* Each arm gives the set of outcomes of handling frame m at node n.

\* on_hello with a helloResponse for every hello
on_hello_always(n, m) ==
  {Result(node[n], pings[n], TRUE, << HelloResponse(n) >> \o join(n), FALSE)}

on_hello(n, m) ==
  {Result(node[n], pings[n], TRUE,
          (IF ~connected[n] THEN << HelloResponse(n) >> ELSE << >>) \o join(n),
          FALSE)}

on_set(n, m) ==
  IF ~IsSome(m.id) \/ ~IsSome(m.key) \/ ~IsSome(m.value) THEN {Panic(n, << >>)}
  ELSE LET id == Unwrap(m.id)
           k == Unwrap(m.key)
           v == Unwrap(m.value)
           query_id == hash(k)
           n2 == push_query(node[n], query_id, QueryType("Set", k, v))
       IN {Result(n2, pings[n], connected[n],
                  << SetResponse(id, k, v),
                     find_successor(n2, n, query_id, n, None) >>, FALSE)}

on_get(n, m) ==
  IF ~IsSome(m.id) \/ ~IsSome(m.key) THEN {Panic(n, << >>)}
  ELSE LET id == Unwrap(m.id)
           k == Unwrap(m.key)
           query_id == hash(k)
           n2 == push_query(node[n], query_id, QueryType("Get", k, ""))
       IN {Result(n2, pings[n], connected[n],
                  << find_successor(n2, n, query_id, n, Some(id)) >>, FALSE)}

on_join(n, m) ==
  IF ~IsSome(m.destination) \/ ~IsSome(m.source) THEN {Panic(n, << >>)}
  ELSE {Result(node[n], pings[n], connected[n],
               << JoinAck(Unwrap(m.destination), Unwrap(m.source)) >>, FALSE)}

\* on_joinAck that looks for the source after it has dropped the
\* predecessor and pushed the query
on_joinAck_late(n, m) ==
  LET n1 == set_predecessor(node[n], None).node
      n2 == push_query(n1, n1.id.id, QueryType("JoinAck", "", ""))
  IN IF ~IsSome(m.source)
       THEN {Result(n2, pings[n], connected[n], << >>, TRUE)}
       ELSE {Result(n2, pings[n], connected[n],
                    << FindSucc(n, Unwrap(m.source), n2.id.id, None) >>, FALSE)}

on_joinAck(n, m) ==
  IF ~IsSome(m.source) THEN {Panic(n, << >>)}
  ELSE LET n1 == set_predecessor(node[n], None).node
           n2 == push_query(n1, n1.id.id, QueryType("JoinAck", "", ""))
       IN {Result(n2, pings[n], connected[n],
                  << FindSucc(n, Unwrap(m.source), n2.id.id, None) >>, FALSE)}

on_findSucc(n, m) ==
  IF ~IsSome(m.query_id) \/ ~IsSome(m.source) THEN {Panic(n, << >>)}
  ELSE {Result(node[n], pings[n], connected[n],
               << find_successor(node[n], n, Unwrap(m.query_id),
                                 Unwrap(m.source), m.id) >>, FALSE)}

\* on_findSuccResponse that takes every answer for the answer to its join
on_findSuccResponse_unasked(n, m) ==
  IF ~IsSome(m.node_name) \/ ~IsSome(m.node_id) \/ ~IsSome(m.query_id)
       \/ set_successor_panics(node[n])
    THEN {Panic(n, << >>)}
  ELSE {Result(set_successor(pop_query(node[n], Unwrap(m.query_id)),
                             NodeEntry(Unwrap(m.node_id), Unwrap(m.node_name))),
               pings[n], connected[n], << >>, FALSE)}

on_findSuccResponse(n, m) ==
  IF ~IsSome(m.node_name) \/ ~IsSome(m.node_id) \/ ~IsSome(m.query_id)
    THEN {Panic(n, << >>)}
  ELSE
    LET node_name == Unwrap(m.node_name)
        node_id == Unwrap(m.node_id)
        query_id == Unwrap(m.query_id)
        nd == node[n]
        n1 == pop_query(nd, query_id)
        Keep(x, out_) == Result(x, pings[n], connected[n], out_, FALSE)
    IN IF query_id \notin DOMAIN nd.current_queries THEN {Keep(nd, << >>)}
       ELSE LET q == nd.current_queries[query_id]
            IN CASE q.kind = "JoinAck" ->
                      IF set_successor_panics(n1) THEN {Panic(n, << >>)}
                      ELSE {Keep(set_successor(n1, NodeEntry(node_id, node_name)), << >>)}
                 [] q.kind = "FixFinger" ->
                      IF ~IsSome(m.id) THEN {Keep(n1, << >>)}
                      ELSE IF set_finger_panics(n1, Unwrap(m.id)) THEN {Panic(n, << >>)}
                      ELSE {Keep(set_finger(n1, Unwrap(m.id),
                                            NodeEntry(node_id, node_name)), << >>)}
                 [] q.kind = "Get" ->
                      IF ~IsSome(m.id) THEN {Keep(n1, << >>)}
                      ELSE {Keep(n1, << Retrieve(n, node_name, q.key, Unwrap(m.id)) >>)}
                 [] q.kind = "Set" ->
                      {Keep(n1, << Store(n, node_name, q.key, q.value) >>)}
                 [] q.kind = "FixSuccessor" ->
                      IF ~IsSome(m.id) THEN {Keep(n1, << >>)}
                      ELSE IF fix_successor_panics(n1, Unwrap(m.id)) THEN {Panic(n, << >>)}
                      ELSE LET r == fix_successor(n1, Unwrap(m.id),
                                                  NodeEntry(node_id, node_name))
                           IN IF r.duplicate
                                THEN {Keep(r.node,
                                           << Duplicate(n, node_name, r.node.id.id,
                                                        duplicate_store(r.node)) >>)}
                                ELSE {Keep(r.node, << >>)}

on_getPred(n, m) ==
  IF ~IsSome(m.source) THEN {Panic(n, << >>)}
  ELSE LET p == node[n].predecessor
       IN {Result(node[n], pings[n], connected[n],
                  << IF IsSome(p)
                       THEN GetPredResponse(n, Unwrap(m.source), Some(Unwrap(p).id),
                                            Some(Unwrap(p).node_name))
                       ELSE GetPredResponse(n, Unwrap(m.source), None, None) >>,
                  FALSE)}

on_getPredResponse(n, m) ==
  LET both == IsSome(m.pred_id) /\ IsSome(m.pred_name)
  IN IF both /\ stabilize_successor_panics(node[n], Unwrap(m.pred_id))
       THEN {Panic(n, << >>)}
       ELSE LET n2 == IF both
                        THEN stabilize_successor(node[n], Unwrap(m.pred_id),
                                                 Unwrap(m.pred_name))
                        ELSE node[n]
            IN {Result(n2, pings[n], connected[n],
                       << Notify(n, n2.successor.node_name, n2.id.id, FALSE) >>,
                       FALSE)}

on_notify(n, m) ==
  IF ~IsSome(m.source) \/ ~IsSome(m.node_id) \/ ~IsSome(m.failed)
    THEN {Panic(n, << >>)}
  ELSE
    LET after(r) ==
          CASE r.transfer.kind = "Get" ->
                 Result(r.node, pings[n], connected[n],
                        << TransferRequest(n, r.node.successor.node_name,
                                           r.transfer.min, r.transfer.max) >>, FALSE)
            [] r.transfer.kind = "Send" ->
                 LET t == transfer_kvs_range(r.node, r.transfer.min, r.transfer.max)
                 IN Result(t.node, pings[n], connected[n],
                           << TransferKeys(n, r.transfer.name, t.kvs) >>, FALSE)
            [] r.transfer.kind = "Duplicate" ->
                 Result(r.node, pings[n], connected[n],
                        duplicate_to_successors(r.node, n), FALSE)
            [] r.transfer.kind = "Nothing" ->
                 Result(r.node, pings[n], connected[n], << >>, FALSE)
    IN {after(r) : r \in stabilize_predecessor(node[n], Unwrap(m.node_id),
                                               Unwrap(m.source), Unwrap(m.failed))}

on_retrieve(n, m) ==
  IF ~IsSome(m.id) \/ ~IsSome(m.key) THEN {Panic(n, << >>)}
  ELSE LET id == Unwrap(m.id)
           k == Unwrap(m.key)
       IN {Result(node[n], pings[n], connected[n],
                  << IF k \in DOMAIN node[n].store
                       THEN GetSuccessResponse(id, k, node[n].store[k])
                       ELSE GetFailResponse(id, k) >>, FALSE)}

on_store(n, m) ==
  IF ~IsSome(m.key) \/ ~IsSome(m.value) THEN {Panic(n, << >>)}
  ELSE LET n2 == [node[n] EXCEPT
                    !.store = Insert(@, Unwrap(m.key), Unwrap(m.value))]
       IN {Result(n2, pings[n], connected[n], duplicate_to_successors(n2, n), FALSE)}

on_transferRequest(n, m) ==
  IF ~IsSome(m.source) \/ ~IsSome(m.min) \/ ~IsSome(m.max) THEN {Panic(n, << >>)}
  ELSE LET t == transfer_kvs_range(node[n], Unwrap(m.min), Unwrap(m.max))
       IN {Result(t.node, pings[n], connected[n],
                  << TransferKeys(n, Unwrap(m.source), t.kvs) >>, FALSE)}

on_transferKeys(n, m) ==
  IF ~IsSome(m.kvs) THEN {Panic(n, << >>)}
  ELSE LET n2 == [node[n] EXCEPT !.store = Extend(@, Unwrap(m.kvs))]
       IN {Result(n2, pings[n], connected[n], duplicate_to_successors(n2, n), FALSE)}

on_duplicate(n, m) ==
  IF ~IsSome(m.id) \/ ~IsSome(m.kvs) THEN {Panic(n, << >>)}
  ELSE {Result(set_for_replica(node[n], Unwrap(m.id), Unwrap(m.kvs)),
               pings[n], connected[n], << >>, FALSE)}

on_ping(n, m) ==
  IF ~IsSome(m.source) THEN {Panic(n, << >>)}
  ELSE {Result(node[n], pings[n], connected[n],
               << Pong(n, Unwrap(m.source)) >>, FALSE)}

on_pong(n, m) == {Result(node[n], 0, connected[n], << >>, FALSE)}

on_pingSelf(n, m) ==
  {Result(node[n], pings[n], connected[n], << PongSelf(n) >>, FALSE)}

on_rejoin(n, m) ==
  IF ~IsSome(m.destination) \/ ~IsSome(m.source) THEN {Panic(n, << >>)}
  ELSE {Result(node[n], pings[n], connected[n],
               << RejoinAck(Unwrap(m.destination), Unwrap(m.source)) >>, FALSE)}

\* on_rejoinAck without the reset of last_failed_successor
on_rejoinAck_keeps(n, m) ==
  IF ~IsSome(m.source) THEN {Panic(n, << >>)}
  ELSE LET n2 == push_query(node[n], node[n].id.id, QueryType("JoinAck", "", ""))
       IN {Result(n2, pings[n], connected[n],
                  << FindSucc(n, Unwrap(m.source), n2.id.id, None) >>, FALSE)}

on_rejoinAck(n, m) ==
  IF ~IsSome(m.source) THEN {Panic(n, << >>)}
  ELSE LET n1 == reset_failed_successor(node[n])
           n2 == push_query(n1, n1.id.id, QueryType("JoinAck", "", ""))
       IN {Result(n2, pings[n], connected[n],
                  << FindSucc(n, Unwrap(m.source), n2.id.id, None) >>, FALSE)}

\* HandlerInner::handle_messages
handle_messages(n, m) ==
  CASE m.type = "hello" -> on_hello(n, m)
    [] m.type = "set" -> on_set(n, m)
    [] m.type = "get" -> on_get(n, m)
    [] m.type = "join" -> on_join(n, m)
    [] m.type = "joinAck" -> on_joinAck(n, m)
    [] m.type = "findSucc" -> on_findSucc(n, m)
    [] m.type = "findSuccResponse" -> on_findSuccResponse(n, m)
    [] m.type = "getPred" -> on_getPred(n, m)
    [] m.type = "getPredResponse" -> on_getPredResponse(n, m)
    [] m.type = "notify" -> on_notify(n, m)
    [] m.type = "retrieve" -> on_retrieve(n, m)
    [] m.type = "store" -> on_store(n, m)
    [] m.type = "transferRequest" -> on_transferRequest(n, m)
    [] m.type = "transferKeys" -> on_transferKeys(n, m)
    [] m.type = "duplicate" -> on_duplicate(n, m)
    [] m.type = "ping" -> on_ping(n, m)
    [] m.type = "pong" -> on_pong(n, m)
    [] m.type = "pingSelf" -> on_pingSelf(n, m)
    [] m.type = "rejoin" -> on_rejoin(n, m)
    [] m.type = "rejoinAck" -> on_rejoinAck(n, m)
    [] OTHER -> {Result(node[n], pings[n], connected[n], << >>, FALSE)}


\* ------------------------------------------------------------ the actions

\* Handler::listen_to_publisher, one turn of the loop at node n: read the
\* next frame, start a stabilizer if it is a hello, handle the frame
HandleMessage(n) ==
  /\ status[n] = "up"
  /\ inbox[n] # << >>
  /\ LET m == Head(inbox[n])
     IN \E r \in handle_messages(n, m) :
          /\ node' = [node EXCEPT ![n] = r.node]
          /\ pings' = [pings EXCEPT ![n] = r.pings]
          /\ connected' = [connected EXCEPT ![n] = r.connected]
          /\ out' = r.out
          /\ client' = client \o ToClient(r.out)
          /\ IF r.panic
               THEN /\ status' = [status EXCEPT ![n] = "panicked"]
                    /\ inbox' = [inbox EXCEPT ![n] = << >>]
                    /\ stabilizers' = [stabilizers EXCEPT ![n] = << >>]
                    /\ pending' = [pending EXCEPT ![n] = 0]
               ELSE /\ status' = status
                    /\ inbox' = Route(r.out, [inbox EXCEPT ![n] = Tail(@)])
                    /\ stabilizers' =
                         [stabilizers EXCEPT
                            ![n] = IF m.type = "hello" THEN Append(@, round) ELSE @]
                    /\ pending' = pending
  \* the timer of a new stabilizer first fires one period later
  /\ ticks' = [ticks EXCEPT
                 ![n] = IF Head(inbox[n]).type = "hello" /\ round > @
                          THEN round ELSE @]
  /\ UNCHANGED << peer_names, round, hellos, requests >>
  /\ UNCHANGED call
  /\ UNCHANGED sync

\* Handler::periodic_stabilize, the read phase of one tick at node n; t is
\* what ticks[n] becomes
TickRead(n, t) ==
  /\ status[n] = "up"
  /\ pending[n] < Len(stabilizers[n])
  /\ LET frames == << stabilize_ring(node[n], n), ping_self(n) >>
                     \o heal_partition(node[n], n)
     IN /\ out' = frames
        /\ inbox' = Route(frames, inbox)
  /\ pending' = [pending EXCEPT ![n] = @ + 1]
  /\ ticks' = [ticks EXCEPT ![n] = t]
  /\ UNCHANGED << status, peer_names, node, connected, pings, stabilizers,
                  client, round, hellos, requests >>
  /\ UNCHANGED call
  /\ UNCHANGED sync

\* Handler::periodic_stabilize, the write phase of one tick at node n; i and
\* j are what the random generator draws in fix_fingers and fix_successors
TickWriteAt(n, i) ==
  /\ status[n] = "up"
  /\ pending[n] > 0
  /\ \E f \in {fix_fingers(node[n], n, i)} :
       \E j \in (LET indexes == live_successor_indexes(f.node)
                 IN IF indexes = {} THEN {-1} ELSE indexes) :
         \E s \in {IF j = -1 THEN [node |-> f.node, out |-> << >>]
                   ELSE fix_successors(f.node, n, j)} :
           \E p \in {ping_successor(s.node, pings[n], n)} :
             \E frames \in {f.out \o s.out \o p.out} :
               /\ node' = [node EXCEPT ![n] = p.node]
               /\ pings' = [pings EXCEPT ![n] = p.pings]
               /\ out' = frames
               /\ inbox' = Route(frames, inbox)
               /\ stabilizers' =
                    [stabilizers EXCEPT ![n] = IF p.panic THEN Tail(@) ELSE @]
  /\ pending' = [pending EXCEPT ![n] = @ - 1]
  /\ UNCHANGED << status, peer_names, connected, client, ticks, round, hellos,
                  requests >>
  /\ UNCHANGED call
  /\ UNCHANGED sync

\* the write phase with any finger index in [1, M)
TickWrite(n) == \E i \in 1 .. (M - 1) : TickWriteAt(n, i)

\* the process of node n is started and subscribes to its name
Start(n) ==
  /\ status[n] = "off"
  /\ status' = [status EXCEPT ![n] = "up"]
  /\ out' = << >>
  /\ UNCHANGED << peer_names, node, connected, pings, stabilizers, pending,
                  inbox, client, ticks, round, hellos, requests >>
  /\ UNCHANGED call
  /\ UNCHANGED sync

\* the broker publishes hello to node n
BrokerHello(n) ==
  /\ status[n] = "up"
  /\ hellos[n] < MaxHello
  /\ hellos' = [hellos EXCEPT ![n] = @ + 1]
  /\ inbox' = [inbox EXCEPT ![n] = Append(@, Hello)]
  /\ out' = << >>
  /\ UNCHANGED << status, peer_names, node, connected, pings, stabilizers,
                  pending, client, ticks, round, requests >>
  /\ UNCHANGED call
  /\ UNCHANGED sync

\* no frame is waiting and no stabilizer tick is under way
Quiescent ==
  /\ \A n \in Names : inbox[n] = << >>
  /\ \A n \in Names : pending[n] = 0

\* a client request reaches node n; every request has an id of its own
ClientRequest(n, req) ==
  /\ status[n] = "up"
  /\ Len(requests) < MaxRequests
  /\ \A i \in 1 .. Len(requests) : requests[i].msg.id # req.id
  /\ requests' = Append(requests, [msg |-> req, at |-> n, quiet |-> Quiescent])
  /\ inbox' = [inbox EXCEPT ![n] = Append(@, req)]
  /\ out' = << >>
  /\ UNCHANGED << status, peer_names, node, connected, pings, stabilizers,
                  pending, client, ticks, round, hellos >>
  /\ UNCHANGED call
  /\ UNCHANGED sync

\* a tick at any time, as long as the node has ticks left
FreeTick(n) == ticks[n] < MaxTicks /\ TickRead(n, ticks[n] + 1)

\* the timers of the stabilizers have the same period, STABILIZE_TIME, which
\* is long against the handling of a frame: a stabilizer ticks once in a
\* period, when the frames of the earlier ticks have been handled
RoundTick(n) == Quiescent /\ ticks[n] < round /\ TickRead(n, round)

\* every running stabilizer has ticked in the current period
RoundComplete ==
  \A n \in Names :
    (status[n] = "up" /\ stabilizers[n] # << >>) => ticks[n] = round

\* the next timer period begins, if it is one of the first max periods
RoundsUpTo(max) ==
  /\ Quiescent
  /\ RoundComplete
  /\ round < max
  /\ round' = round + 1
  /\ out' = << >>
  /\ UNCHANGED << status, peer_names, node, connected, pings, stabilizers,
                  pending, inbox, client, ticks, hellos, requests >>
  /\ UNCHANGED call
  /\ UNCHANGED sync

NextRound == RoundsUpTo(MaxRounds)

\* the state after Handler::new at every node, given the peer lists
Constructed(peers) ==
  /\ peer_names = peers
  /\ node = [n \in Names |-> NewNode(M, n, hash(n), tau(peers[n]))]
  /\ connected = [n \in Names |-> FALSE]
  /\ pings = [n \in Names |-> 0]
  /\ stabilizers = [n \in Names |-> << >>]
  /\ pending = [n \in Names |-> 0]
  /\ inbox = [n \in Names |-> << >>]
  /\ client = << >>
  /\ out = << >>
  /\ ticks = [n \in Names |-> 0]
  /\ round = 0
  /\ hellos = [n \in Names |-> 0]
  /\ requests = << >>
  /\ SyncInit

\* ------------------------------------------- a ring of the single node a

\* the client requests: hash("plum") is the start of finger 3 of a
SoloRequests ==
  {SetMsg(1, "plum", "red"), SetMsg(2, "banana", "yellow"), GetMsg(3, "plum")}

\* a is started alone, with no peer or with the peer b that is not running
SoloInit ==
  /\ status = [n \in Names |-> IF n = "a" THEN "up" ELSE "off"]
  /\ \E p \in { << >>, << "b" >> } :
       Constructed([n \in Names |-> IF n = "a" THEN p ELSE << >>])

SoloNext ==
  \/ BrokerHello("a")
  \/ \E req \in SoloRequests : ClientRequest("a", req)
  \/ HandleMessage("a")
  \/ FreeTick("a")
  \/ TickWrite("a")

SoloSpec == SoloInit /\ [][SoloNext]_vars

\* the handler loop and the stabilizer of a keep running
SoloFair ==
  /\ SoloSpec
  /\ WF_vars(HandleMessage("a"))
  /\ WF_vars(TickWrite("a"))


\* ------------------------------------------------- b joins the ring of a

\* the keys a holds before b joins: hash("plum") is in (hash("a"), hash("b")]
\* and hash("banana") is in (hash("b"), hash("a")]
JoinStore == ("plum" :> "red") @@ ("banana" :> "yellow")

\* a is started, with no peer or with the peer b, has stored the keys of two
\* set requests and has handled its hello (its join, if it has a peer, went
\* to a node that was not running); b is configured with the peer a and is
\* not yet running
JoinInit ==
  /\ status = [n \in Names |-> IF n = "a" THEN "up" ELSE "off"]
  /\ \E p \in { << >>, << "b" >> } :
       /\ peer_names = [n \in Names |->
                          IF n = "a" THEN p ELSE IF n = "b" THEN << "a" >> ELSE << >>]
       /\ node = [n \in Names |->
                    IF n = "a"
                      THEN [NewNode(M, n, hash(n), tau(p)) EXCEPT !.store = JoinStore]
                      ELSE NewNode(M, n, hash(n), tau(peer_names[n]))]
  /\ connected = [n \in Names |-> n = "a"]
  /\ pings = [n \in Names |-> 0]
  /\ stabilizers = [n \in Names |-> IF n = "a" THEN << 0 >> ELSE << >>]
  /\ pending = [n \in Names |-> 0]
  /\ inbox = [n \in Names |-> << >>]
  /\ client = << >>
  /\ out = << >>
  /\ ticks = [n \in Names |-> 0]
  /\ round = 0
  /\ hellos = [n \in Names |-> IF n = "a" THEN 1 ELSE 0]
  /\ requests = << >>
  /\ SyncInit

JoinNodes == {"a", "b"}

JoinNext ==
  \/ Start("b")
  \/ \E n \in JoinNodes : BrokerHello(n)
  \/ \E n \in JoinNodes : HandleMessage(n)
  \/ \E n \in JoinNodes : RoundTick(n)
  \/ \E n \in JoinNodes : TickWrite(n)
  \/ NextRound

JoinSpec == JoinInit /\ [][JoinNext]_vars

\* ------------------------------- b joins, the timers are not synchronized

\* JoinSpec without the timer periods, up to the next tick of a: the
\* stabilizer of b ticks at any time after its hello, also while the frames
\* of its join are in flight
FreeJoinNext ==
  \/ Start("b")
  \/ BrokerHello("b")
  \/ \E n \in JoinNodes : HandleMessage(n)
  \/ FreeTick("b")
  \/ TickWrite("b")

FreeJoinSpec == JoinInit /\ [][FreeJoinNext]_vars

\* --------------------------------- a set request while b joins the ring

\* JoinSpec for a node a that has the peer b, with a set request that
\* reaches a in the first timer period after the join; hash("apple") is in
\* (hash("a"), hash("b")]
JoinSetInit == JoinInit /\ peer_names["a"] = << "b" >>

JoinSetNext ==
  \/ JoinNext
  \/ round = 1 /\ ClientRequest("a", SetMsg(1, "apple", "green"))

JoinSetSpec == JoinSetInit /\ [][JoinSetNext]_vars


\* ------------------------------------------------- the ring of a and b

EntryOf(n) == NodeEntry(hash(n), n)

\* the node n of the ring of two, as JoinSetSpec leaves it: the other node
\* is its successor, its predecessor and its finger 1
RingNode(n, other, store, replica_store) ==
  [set_finger(set_successor(NewNode(M, n, hash(n), 1), EntryOf(other)),
              1, EntryOf(other))
     EXCEPT !.predecessor = Some(EntryOf(other)),
            !.store = store,
            !.replica_store = replica_store]

RingNodeA ==
  RingNode("a", "b", ("apple" :> "green") @@ ("banana" :> "yellow"),
           hash("b") :> ("plum" :> "red"))

RingNodeB ==
  RingNode("b", "a", "plum" :> "red",
           hash("a") :> (("apple" :> "green") @@ ("banana" :> "yellow")))

\* a and b are running and form the ring; no frame is in flight
RingInit ==
  /\ status = [n \in Names |-> IF n \in JoinNodes THEN "up" ELSE "off"]
  /\ peer_names = [n \in Names |->
                     IF n = "a" THEN << "b" >> ELSE IF n = "b" THEN << "a" >> ELSE << >>]
  /\ node = [n \in Names |->
               IF n = "a" THEN RingNodeA
               ELSE IF n = "b" THEN RingNodeB
               ELSE NewNode(M, n, hash(n), 0)]
  /\ connected = [n \in Names |-> n \in JoinNodes]
  /\ pings = [n \in Names |-> 0]
  /\ stabilizers = [n \in Names |-> IF n \in JoinNodes THEN << 0 >> ELSE << >>]
  /\ pending = [n \in Names |-> 0]
  /\ inbox = [n \in Names |-> << >>]
  /\ client = << >>
  /\ out = << >>
  /\ ticks = [n \in Names |-> 0]
  /\ round = 0
  /\ hellos = [n \in Names |-> IF n \in JoinNodes THEN 1 ELSE 0]
  /\ requests = << >>
  /\ SyncInit

\* a get request reaches b at any time, and each stabilizer ticks when the
\* frames of the earlier ticks have been handled; hash("n3") is the start of
\* finger 7 of b
RingNext ==
  \/ ClientRequest("b", GetMsg(0, "n3"))
  \/ \E n \in JoinNodes : HandleMessage(n)
  \/ \E n \in JoinNodes : Quiescent /\ FreeTick(n)
  \/ \E n \in JoinNodes : TickWrite(n)

RingSpec == RingInit /\ [][RingNext]_vars

\* a tick of the stabilizer of n, any number of times, each when the frames
\* of the earlier ticks have been handled
RingTick(n) == Quiescent /\ TickRead(n, ticks[n])

\* the ring is left to its stabilizers
StableNext ==
  \/ \E n \in JoinNodes : HandleMessage(n)
  \/ \E n \in JoinNodes : RingTick(n)
  \/ \E n \in JoinNodes : TickWrite(n)

\* the handler loop and the stabilizer of a running node keep running
StableFair ==
  /\ RingInit
  /\ [][StableNext]_vars
  /\ \A n \in JoinNodes : WF_vars(HandleMessage(n))
  /\ \A n \in JoinNodes : WF_vars(RingTick(n))
  /\ \A n \in JoinNodes : WF_vars(TickWrite(n))

\* ------------------------------------------- the ring of a, b and c

\* a node of the ring c -> a -> b -> c of three nodes that were each started
\* with the other two as peers: its successor and predecessor, the second
\* entry of its successor list, its finger 1, and the nodes it holds (empty)
\* replicas of
Ring3Node(n, succ, pred, second, finger1, replicas) ==
  LET n0 == NewNode(M, n, hash(n), 2)
      n1 == set_successor(n0, EntryOf(succ))
      n2 == fix_successor(n1, 1, EntryOf(second)).node
      n3 == set_finger(n2, 1, EntryOf(finger1))
  IN [n3 EXCEPT !.predecessor = Some(EntryOf(pred)),
                !.replica_store = [id \in {hash(r) : r \in replicas} |-> << >>]]

\* the ring when the three nodes have joined and have ticked once: the
\* second successor of a is still a itself
Ring3Fresh ==
  [n \in Names |->
     IF n = "a" THEN Ring3Node("a", "b", "c", "a", "c", {"c"})
     ELSE IF n = "b" THEN Ring3Node("b", "c", "a", "c", "a", {})
     ELSE IF n = "c" THEN Ring3Node("c", "a", "b", "c", "a", {"a", "b"})
     ELSE NewNode(M, n, hash(n), 0)]

\* the ring one period later: every successor list is filled
Ring3Settled ==
  [n \in Names |->
     IF n = "a" THEN Ring3Node("a", "b", "c", "c", "b", {"b", "c"})
     ELSE IF n = "b" THEN Ring3Node("b", "c", "a", "a", "c", {"c"})
     ELSE IF n = "c" THEN Ring3Node("c", "a", "b", "b", "a", {"a", "b"})
     ELSE NewNode(M, n, hash(n), 0)]

\* the three nodes form the ring and b has just stopped answering: the
\* frames published to it are lost
FailInit ==
  /\ status = [n \in Names |->
                 IF n = "b" THEN "down" ELSE IF n \in {"a", "c"} THEN "up" ELSE "off"]
  /\ peer_names = [n \in Names |->
                     IF n = "a" THEN << "b", "c" >>
                     ELSE IF n = "b" THEN << "a", "c" >>
                     ELSE IF n = "c" THEN << "a", "b" >> ELSE << >>]
  /\ node \in {Ring3Fresh, Ring3Settled}
  /\ connected = [n \in Names |-> n \in {"a", "b", "c"}]
  /\ pings = [n \in Names |-> 0]
  /\ stabilizers = [n \in Names |-> IF n \in {"a", "b", "c"} THEN << 0 >> ELSE << >>]
  /\ pending = [n \in Names |-> 0]
  /\ inbox = [n \in Names |-> << >>]
  /\ client = << >>
  /\ out = << >>
  /\ ticks = [n \in Names |-> 0]
  /\ round = 0
  /\ hellos = [n \in Names |-> IF n \in {"a", "b", "c"} THEN 1 ELSE 0]
  /\ requests = << >>
  /\ SyncInit

\* the stabilizers of the running nodes tick once in a period; a behaviour
\* is followed up to the tick of a in the last period
FailTick(n) == (n = "a" \/ round < MaxFailRounds) /\ RoundTick(n)

FailNext ==
  \/ \E n \in Names : HandleMessage(n)
  \/ \E n \in Names : FailTick(n)
  \/ \E n \in Names : TickWrite(n)
  \/ RoundsUpTo(MaxFailRounds)

FailSpec == FailInit /\ [][FailNext]_vars


\* ------------------------------------------- the ring of a, n3 and r

\* the nodes of the ring n3 -> r -> a -> n3; hash("a") + 1 is the start of
\* finger 1 of r, and no other finger start of the three nodes is the id
\* after that of the node's successor
FingerNodes == {"a", "n3", "r"}

\* the number of steps clockwise from the id x to the id y
Ahead(x, y) == (y - x) % Pow2(M)

\* the first of the nodes of the ring at or clockwise after the id x
TrueSuccessor(ring, x) ==
  CHOOSE n \in ring : \A o \in ring : Ahead(x, hash(n)) <= Ahead(x, hash(o))

\* the node nd when FixFinger responses have reached its fingers in [1, M),
\* but for those in stale
FixedFingers(nd, stale) ==
  LET ft == nd.finger_table
  IN [nd EXCEPT !.finger_table =
        [i \in DOMAIN ft |->
           IF i = 0 \/ i \in stale THEN ft[i]
           ELSE [start |-> ft[i].start,
                 node |-> EntryOf(TrueSuccessor(FingerNodes, ft[i].start))]]]

\* the ring of a, n3 and r, each started with the other two as peers, as
\* its stabilizers leave it: successor lists are filled, and the fingers are
\* fixed but for finger 1 of r, which is as Node::new made it
FingerRing ==
  [n \in Names |->
     IF n = "a" THEN FixedFingers(Ring3Node("a", "n3", "r", "r", "a", {"n3", "r"}), {})
     ELSE IF n = "n3" THEN FixedFingers(Ring3Node("n3", "r", "a", "a", "n3", {"r"}), {})
     ELSE IF n = "r" THEN FixedFingers(Ring3Node("r", "a", "n3", "n3", "r", {"a", "n3"}), {1})
     ELSE NewNode(M, n, hash(n), 0)]

FingerInit ==
  /\ status = [n \in Names |-> IF n \in FingerNodes THEN "up" ELSE "off"]
  /\ peer_names = [n \in Names |->
                     IF n = "a" THEN << "n3", "r" >>
                     ELSE IF n = "n3" THEN << "a", "r" >>
                     ELSE IF n = "r" THEN << "a", "n3" >> ELSE << >>]
  /\ node = FingerRing
  /\ connected = [n \in Names |-> n \in FingerNodes]
  /\ pings = [n \in Names |-> 0]
  /\ stabilizers = [n \in Names |-> IF n \in FingerNodes THEN << 0 >> ELSE << >>]
  /\ pending = [n \in Names |-> 0]
  /\ inbox = [n \in Names |-> << >>]
  /\ client = << >>
  /\ out = << >>
  /\ ticks = [n \in Names |-> 0]
  /\ round = 0
  /\ hellos = [n \in Names |-> IF n \in FingerNodes THEN 1 ELSE 0]
  /\ requests = << >>
  /\ SyncInit

\* the ring is left to its stabilizers
FingerNext ==
  \/ \E n \in FingerNodes : HandleMessage(n)
  \/ \E n \in FingerNodes : RingTick(n)
  \/ \E n \in FingerNodes : TickWrite(n)

\* the handler loop and the stabilizer of a running node keep running
FingerFair ==
  /\ FingerInit
  /\ [][FingerNext]_vars
  /\ \A n \in FingerNodes : WF_vars(HandleMessage(n))
  /\ \A n \in FingerNodes : WF_vars(RingTick(n))
  /\ \A n \in FingerNodes : WF_vars(TickWrite(n))

\* ----------------------------- a key that hashes to the id of a node

\* a get of the key r, which hashes to the id of the node r, reaches a node
\* of the ring of a, n3 and r, which is left to its stabilizers otherwise
OwnKeyNext ==
  \/ \E n \in FingerNodes : ClientRequest(n, GetMsg(0, "r"))
  \/ FingerNext

OwnKeySpec == FingerInit /\ [][OwnKeyNext]_vars

\* ------------------------------- b joins a, a key is set, and b stops

\* the process of node n stops: the frames waiting for it and those sent to
\* it from now on are lost
Stop(n) ==
  /\ status[n] = "up"
  /\ status' = [status EXCEPT ![n] = "down"]
  /\ inbox' = [inbox EXCEPT ![n] = << >>]
  /\ pending' = [pending EXCEPT ![n] = 0]
  /\ out' = << >>
  /\ UNCHANGED << peer_names, node, connected, pings, stabilizers, client,
                  ticks, round, hellos, requests >>
  /\ UNCHANGED call
  /\ UNCHANGED sync

\* b joins through a, which holds plum -> red; the client sets plum to blue
\* at a at any time, b stops at any time, and the stabilizers tick once in a
\* period
StopNext ==
  \/ Start("b")
  \/ \E n \in JoinNodes : BrokerHello(n)
  \/ \E n \in JoinNodes : HandleMessage(n)
  \/ \E n \in JoinNodes : RoundTick(n)
  \/ \E n \in JoinNodes : TickWriteAt(n, 1)
  \/ RoundsUpTo(MaxFailRounds)
  \/ ClientRequest("a", SetMsg(1, "plum", "blue"))
  \/ Stop("b")

StopSpec == JoinSetInit /\ [][StopNext]_vars

\* ------------------------------ a has joined between r and its successor

\* r and n3 formed the ring of two, and a has joined through n3 and has
\* notified it: n3 has a as its predecessor, and r still has n3 as its
\* successor
LateRing ==
  [n \in Names |->
     IF n = "r" THEN Ring3Node("r", "n3", "n3", "r", "n3", {"n3"})
     ELSE IF n = "n3" THEN Ring3Node("n3", "r", "a", "n3", "r", {"r"})
     ELSE IF n = "a"
       THEN [set_successor(NewNode(M, "a", hash("a"), 2), EntryOf("n3"))
               EXCEPT !.predecessor = None]
     ELSE NewNode(M, n, hash(n), 0)]

LateInit ==
  /\ status = [n \in Names |-> IF n \in FingerNodes THEN "up" ELSE "off"]
  /\ peer_names = [n \in Names |->
                     IF n = "a" THEN << "n3", "r" >>
                     ELSE IF n = "n3" THEN << "a", "r" >>
                     ELSE IF n = "r" THEN << "a", "n3" >> ELSE << >>]
  /\ node = LateRing
  /\ connected = [n \in Names |-> n \in FingerNodes]
  /\ pings = [n \in Names |-> 0]
  /\ stabilizers = [n \in Names |-> IF n \in FingerNodes THEN << 0 >> ELSE << >>]
  /\ pending = [n \in Names |-> 0]
  /\ inbox = [n \in Names |-> << >>]
  /\ client = << >>
  /\ out = << >>
  /\ ticks = [n \in Names |-> 0]
  /\ round = 0
  /\ hellos = [n \in Names |-> IF n \in FingerNodes THEN 1 ELSE 0]
  /\ requests = << >>
  /\ SyncInit

\* a tick of the stabilizer of n whether or not the frames of its earlier
\* ticks have been handled; a behaviour is followed up to the tick after
\* FAILURE_THRESHOLD ticks, the one that can give the successor up
LateTick(n) == ticks[n] <= FAILURE_THRESHOLD /\ TickRead(n, ticks[n] + 1)

\* a and n3 have handled every frame sent to them
Prompt == inbox["a"] = << >> /\ inbox["n3"] = << >>

\* the stabilizer of r ticks, drawing the finger index 1 each time; a and
\* n3 handle their frames as they come, and r handles its own at any time
\* after that, before or after its next tick
LateNext ==
  \/ \E n \in {"a", "n3"} : HandleMessage(n)
  \/ Prompt /\ HandleMessage("r")
  \/ Prompt /\ LateTick("r")
  \/ Prompt /\ TickWriteAt("r", 1)

LateSpec == LateInit /\ [][LateNext]_vars

\* ------------------------------------- b stops answering in the ring of two

\* a and b form the ring and b has just stopped answering
DetectInit ==
  /\ status = [n \in Names |-> IF n = "a" THEN "up" ELSE IF n = "b" THEN "down" ELSE "off"]
  /\ peer_names = [n \in Names |->
                     IF n = "a" THEN << "b" >> ELSE IF n = "b" THEN << "a" >> ELSE << >>]
  /\ node = [n \in Names |->
               IF n = "a" THEN RingNodeA
               ELSE IF n = "b" THEN RingNodeB
               ELSE NewNode(M, n, hash(n), 0)]
  /\ connected = [n \in Names |-> n \in JoinNodes]
  /\ pings = [n \in Names |-> 0]
  /\ stabilizers = [n \in Names |-> IF n \in JoinNodes THEN << 0 >> ELSE << >>]
  /\ pending = [n \in Names |-> 0]
  /\ inbox = [n \in Names |-> << >>]
  /\ client = << >>
  /\ out = << >>
  /\ ticks = [n \in Names |-> 0]
  /\ round = 0
  /\ hellos = [n \in Names |-> IF n \in JoinNodes THEN 1 ELSE 0]
  /\ requests = << >>
  /\ SyncInit

DetectNext ==
  \/ HandleMessage("a")
  \/ RoundTick("a")
  \/ TickWrite("a")
  \/ RoundsUpTo(MaxFailRounds)

DetectSpec == DetectInit /\ [][DetectNext]_vars

\* --------------------------------------- b answers again in the ring of two

\* the node a as DetectSpec leaves it: after FAILURE_THRESHOLD + 1 ticks it
\* has taken the next entry of its successor list, itself, as its successor,
\* and it has handled the notify it sent to itself
HealNodeA ==
  (CHOOSE r \in stabilize_predecessor(successor_failure(RingNodeA),
                                      hash("a"), "a", TRUE) : TRUE).node

\* b is reachable again, with the state it had
HealInit ==
  /\ status = [n \in Names |-> IF n \in JoinNodes THEN "up" ELSE "off"]
  /\ peer_names = [n \in Names |->
                     IF n = "a" THEN << "b" >> ELSE IF n = "b" THEN << "a" >> ELSE << >>]
  /\ node = [n \in Names |->
               IF n = "a" THEN HealNodeA
               ELSE IF n = "b" THEN RingNodeB
               ELSE NewNode(M, n, hash(n), 0)]
  /\ connected = [n \in Names |-> n \in JoinNodes]
  /\ pings = [n \in Names |-> 0]
  /\ stabilizers = [n \in Names |-> IF n \in JoinNodes THEN << 0 >> ELSE << >>]
  /\ pending = [n \in Names |-> 0]
  /\ inbox = [n \in Names |-> << >>]
  /\ client = << >>
  /\ out = << >>
  /\ ticks = [n \in Names |-> 0]
  /\ round = 0
  /\ hellos = [n \in Names |-> IF n \in JoinNodes THEN 1 ELSE 0]
  /\ requests = << >>
  /\ SyncInit

HealNext ==
  \/ \E n \in JoinNodes : HandleMessage(n)
  \/ \E n \in JoinNodes : RoundTick(n)
  \/ \E n \in JoinNodes : TickWrite(n)
  \/ NextRound

HealSpec == HealInit /\ [][HealNext]_vars

\* ------------------------------------------------------ claims C2 and C3

\* ------------------------------------ the threads and the lock of a

\* the node whose threads are modelled
LockNode == "a"

\* the thread t has a frame to send, t holds the lock
Holds(t) == t \in lock.readers \/ lock.writer = << t >>

\* the lock without the thread t
Released(t) ==
  [lock EXCEPT !.readers = @ \ {t},
               !.writer = IF @ = << t >> THEN << >> ELSE @]

\* every thread of the node stops: the thread of listen_to_publisher has
\* panicked
Exit ==
  /\ status' = [status EXCEPT ![LockNode] = "panicked"]
  /\ inbox' = [inbox EXCEPT ![LockNode] = << >>]
  /\ stabilizers' = [stabilizers EXCEPT ![LockNode] = << >>]
  /\ threads' = [t \in Threads |-> [pc |-> "dead", tosend |-> << >>, panic |-> FALSE]]
  /\ lock' = Unlocked
  /\ req_socket' = {}

\* the broker publishes hello to the node, at most max times
LockHello(max) ==
  /\ status[LockNode] = "up"
  /\ hellos[LockNode] < max
  /\ hellos' = [hellos EXCEPT ![LockNode] = @ + 1]
  /\ inbox' = [inbox EXCEPT ![LockNode] = Append(@, Hello)]
  /\ out' = << >>
  /\ UNCHANGED << status, peer_names, node, connected, pings, stabilizers,
                  pending, client, ticks, round, requests, sync >>
  /\ UNCHANGED call

\* lock.read() and lock.write(), first half: the thread t parks for the lock
LockRequest(t) ==
  /\ status[LockNode] = "up"
  /\ threads[t].pc \in {"want_read", "want_write"}
  /\ lock' = [lock EXCEPT
                !.queue = Append(@, [t |-> t,
                                     mode |-> IF threads[t].pc = "want_read"
                                                THEN "read" ELSE "write"])]
  /\ threads' = [threads EXCEPT
                   ![t].pc = IF @ = "want_read" THEN "wait_read" ELSE "wait_write"]
  /\ out' = << >>
  /\ UNCHANGED << status, peer_names, node, connected, pings, stabilizers,
                  pending, inbox, client, ticks, round, hellos, requests,
                  req_socket >>
  /\ UNCHANGED call

\* lock.read(), second half: the first parked thread gets the lock shared
\* when no thread holds it exclusive.  The listener then waits in recv; a
\* stabilizer has stabilize_ring, ping_self and heal_partition to send.
LockRead(t) ==
  /\ status[LockNode] = "up"
  /\ lock.queue # << >>
  /\ Head(lock.queue) = [t |-> t, mode |-> "read"]
  /\ lock.writer = << >>
  /\ lock' = [lock EXCEPT !.queue = Tail(@), !.readers = @ \cup {t}]
  /\ threads' =
       [threads EXCEPT
          ![t] = IF t = Listener
                   THEN [@ EXCEPT !.pc = "recv"]
                   ELSE [@ EXCEPT !.pc = "send",
                                  !.tosend =
                                     << stabilize_ring(node[LockNode], LockNode),
                                        ping_self(LockNode) >>
                                     \o heal_partition(node[LockNode], LockNode)]]
  /\ out' = << >>
  /\ UNCHANGED << status, peer_names, node, connected, pings, stabilizers,
                  pending, inbox, client, ticks, round, hellos, requests,
                  req_socket >>
  /\ UNCHANGED call

\* Handler::listen_to_publisher: recv returns the next frame (which stays
\* first in the inbox until it is handled), the listener unlocks and, for a
\* hello, spawns a stabilizer
Recv ==
  /\ status[LockNode] = "up"
  /\ threads[Listener].pc = "recv"
  /\ inbox[LockNode] # << >>
  /\ lock' = Released(Listener)
  /\ LET hello == Head(inbox[LockNode]).type = "hello"
         free == {t \in Stabilizers : threads[t].pc = "off"}
         new == CHOOSE t \in free : \A u \in free : t <= u
     IN /\ hello => free # {}
        /\ threads' =
             [t \in Threads |->
                IF t = Listener THEN [threads[t] EXCEPT !.pc = "want_write"]
                ELSE IF hello /\ t = new THEN [threads[t] EXCEPT !.pc = "sleep"]
                ELSE threads[t]]
        /\ stabilizers' =
             [stabilizers EXCEPT
                ![LockNode] = IF hello THEN Append(@, round) ELSE @]
  /\ out' = << >>
  /\ UNCHANGED << status, peer_names, node, connected, pings, pending, inbox,
                  client, ticks, round, hellos, requests, req_socket >>
  /\ UNCHANGED call

\* Handler::listen_to_publisher: the listener, first parked, gets the lock
\* exclusive and handle_messages runs; the frames it sends are sent one by
\* one before the unlock
LockWriteMain ==
  /\ status[LockNode] = "up"
  /\ lock.queue # << >>
  /\ Head(lock.queue) = [t |-> Listener, mode |-> "write"]
  /\ lock.writer = << >>
  /\ lock.readers = {}
  /\ \E r \in handle_messages(LockNode, Head(inbox[LockNode])) :
       /\ node' = [node EXCEPT ![LockNode] = r.node]
       /\ pings' = [pings EXCEPT ![LockNode] = r.pings]
       /\ connected' = [connected EXCEPT ![LockNode] = r.connected]
       /\ IF r.panic
            THEN Exit
            ELSE /\ lock' = [lock EXCEPT !.queue = Tail(@), !.writer = << Listener >>]
                 /\ threads' = [threads EXCEPT ![Listener].pc = "send",
                                               ![Listener].tosend = r.out]
                 /\ inbox' = [inbox EXCEPT ![LockNode] = Tail(@)]
                 /\ UNCHANGED << status, stabilizers, req_socket >>
  /\ out' = << >>
  /\ UNCHANGED << peer_names, pending, client, ticks, round, hellos, requests >>
  /\ UNCHANGED call

\* the write phase of a tick of the node n: fix_fingers, fix_successors and
\* ping_successor, for every draw of the random generator
write_phase(n) ==
  UNION {
    LET f == fix_fingers(node[n], n, i)
        indexes == live_successor_indexes(f.node)
    IN { LET s == IF j = -1 THEN [node |-> f.node, out |-> << >>]
                  ELSE fix_successors(f.node, n, j)
             p == ping_successor(s.node, pings[n], n)
         IN [node |-> p.node, pings |-> p.pings,
             out |-> f.out \o s.out \o p.out, panic |-> p.panic]
         : j \in (IF indexes = {} THEN {-1} ELSE indexes) }
    : i \in 1 .. (M - 1) }

\* Handler::periodic_stabilize: the stabilizer t, first parked, gets the
\* lock exclusive for the write phase of its tick
LockWriteTick(t) ==
  /\ status[LockNode] = "up"
  /\ t \in Stabilizers
  /\ lock.queue # << >>
  /\ Head(lock.queue) = [t |-> t, mode |-> "write"]
  /\ lock.writer = << >>
  /\ lock.readers = {}
  /\ \E r \in write_phase(LockNode) :
       /\ node' = [node EXCEPT ![LockNode] = r.node]
       /\ pings' = [pings EXCEPT ![LockNode] = r.pings]
       /\ threads' = [threads EXCEPT ![t].pc = "send", ![t].tosend = r.out,
                                     ![t].panic = r.panic]
  /\ lock' = [lock EXCEPT !.queue = Tail(@), !.writer = << t >>]
  /\ out' = << >>
  /\ UNCHANGED << status, peer_names, connected, stabilizers, pending, inbox,
                  client, ticks, round, hellos, requests, req_socket >>
  /\ UNCHANGED call

\* HandlerInner::send_to_broker, first half: the thread t, which holds the
\* lock, sends its next frame on req_socket and the broker routes it
Send(t) ==
  /\ status[LockNode] = "up"
  /\ threads[t].pc = "send"
  /\ threads[t].tosend # << >>
  /\ Holds(t)
  /\ req_socket' = req_socket \cup {t}
  /\ threads' = [threads EXCEPT ![t].pc = "ack"]
  /\ out' = << Head(threads[t].tosend) >>
  /\ inbox' = Route(out', inbox)
  /\ client' = client \o ToClient(out')
  /\ UNCHANGED << status, peer_names, node, connected, pings, stabilizers,
                  pending, ticks, round, hellos, requests, lock >>
  /\ UNCHANGED call

\* HandlerInner::send_to_broker: a send on req_socket while another thread
\* waits for its acknowledgement may also return an error, and the expect
\* panics: a stabilizer ends and unlocks
SendFails(t) ==
  /\ status[LockNode] = "up"
  /\ t \in Stabilizers
  /\ threads[t].pc = "send"
  /\ threads[t].tosend # << >>
  /\ req_socket \ {t} # {}
  /\ threads' = [threads EXCEPT ![t] = [pc |-> "dead", tosend |-> << >>, panic |-> FALSE]]
  /\ lock' = Released(t)
  /\ out' = << >>
  /\ UNCHANGED << status, peer_names, node, connected, pings, stabilizers,
                  pending, inbox, client, ticks, round, hellos, requests,
                  req_socket >>
  /\ UNCHANGED call

\* HandlerInner::send_to_broker, second half: the thread t receives the
\* acknowledgement of the broker
Ack(t) ==
  /\ status[LockNode] = "up"
  /\ threads[t].pc = "ack"
  /\ req_socket' = req_socket \ {t}
  /\ threads' = [threads EXCEPT ![t].pc = "send", ![t].tosend = Tail(@)]
  /\ out' = << >>
  /\ UNCHANGED << status, peer_names, node, connected, pings, stabilizers,
                  pending, inbox, client, ticks, round, hellos, requests, lock >>
  /\ UNCHANGED call

\* unlock_fair: the thread t has sent its frames.  The listener goes on to
\* lock.read(), a stabilizer from its read phase to lock.write() and from
\* its write phase to the next tick of its timer; a stabilizer that
\* panicked in its write phase has ended.
Unlock(t) ==
  /\ status[LockNode] = "up"
  /\ threads[t].pc = "send"
  /\ threads[t].tosend = << >>
  /\ Holds(t)
  /\ lock' = Released(t)
  /\ threads' =
       [threads EXCEPT
          ![t].pc = IF t = Listener THEN "want_read"
                    ELSE IF threads[t].panic THEN "dead"
                    ELSE IF t \in lock.readers THEN "want_write"
                    ELSE "sleep",
          ![t].panic = FALSE]
  /\ out' = << >>
  /\ UNCHANGED << status, peer_names, node, connected, pings, stabilizers,
                  pending, inbox, client, ticks, round, hellos, requests,
                  req_socket >>
  /\ UNCHANGED call

\* Handler::periodic_stabilize: the timer of the stabilizer t fires.  The
\* period, STABILIZE_TIME, is long against the handling of a frame: the
\* frames of the earlier ticks have been handled.
Tick(t) ==
  /\ status[LockNode] = "up"
  /\ threads[t].pc = "sleep"
  /\ inbox[LockNode] = << >>
  /\ threads' = [threads EXCEPT ![t].pc = "want_read"]
  /\ out' = << >>
  /\ UNCHANGED << status, peer_names, node, connected, pings, stabilizers,
                  pending, inbox, client, ticks, round, hellos, requests, lock,
                  req_socket >>
  /\ UNCHANGED call

\* one step of the thread t between the firing of its timer, or the
\* arrival of a frame, and its next wait
ThreadStep(t) ==
  \/ LockRequest(t)
  \/ LockRead(t)
  \/ (t = Listener /\ Recv)
  \/ (t = Listener /\ LockWriteMain)
  \/ LockWriteTick(t)
  \/ Send(t)
  \/ Ack(t)
  \/ Unlock(t)

\* a is started with the peer b, which is not running; its listener is
\* about to lock
LockInit ==
  /\ status = [n \in Names |-> IF n = LockNode THEN "up" ELSE "off"]
  /\ peer_names = [n \in Names |-> IF n = LockNode THEN << "b" >> ELSE << >>]
  /\ node = [n \in Names |-> NewNode(M, n, hash(n), tau(peer_names[n]))]
  /\ connected = [n \in Names |-> FALSE]
  /\ pings = [n \in Names |-> 0]
  /\ stabilizers = [n \in Names |-> << >>]
  /\ pending = [n \in Names |-> 0]
  /\ inbox = [n \in Names |-> << >>]
  /\ client = << >>
  /\ out = << >>
  /\ ticks = [n \in Names |-> 0]
  /\ round = 0
  /\ hellos = [n \in Names |-> 0]
  /\ requests = << >>
  /\ lock = Unlocked
  /\ threads = [NoThreads EXCEPT ![Listener].pc = "want_read"]
  /\ req_socket = {}
  /\ call = << >>

LockNext ==
  \/ LockHello(MaxLockHello)
  \/ \E t \in Threads : LockRequest(t)
  \/ \E t \in Threads : LockRead(t)
  \/ Recv
  \/ LockWriteMain
  \/ \E t \in Stabilizers : LockWriteTick(t)
  \/ \E t \in Threads : Send(t)
  \/ \E t \in Stabilizers : SendFails(t)
  \/ \E t \in Threads : Ack(t)
  \/ \E t \in Threads : Unlock(t)
  \/ \E t \in Stabilizers : Tick(t)

LockSpec == LockInit /\ [][LockNext]_vars

\* the node that receives one hello, and so has one stabilizer: no send
\* meets another.  The scheduler of the threads, the hand-off of the lock
\* and the broker are fair: a thread that can take its next step takes it.
OneHelloNext ==
  \/ LockHello(1)
  \/ \E t \in Threads : LockRequest(t)
  \/ \E t \in Threads : LockRead(t)
  \/ Recv
  \/ LockWriteMain
  \/ \E t \in Stabilizers : LockWriteTick(t)
  \/ \E t \in Threads : Send(t)
  \/ \E t \in Threads : Ack(t)
  \/ \E t \in Threads : Unlock(t)
  \/ \E t \in Stabilizers : Tick(t)

LockFair ==
  /\ LockInit
  /\ [][OneHelloNext]_vars
  /\ \A t \in Threads : WF_vars(ThreadStep(t))


\* --------------------------------------------- a node that is greeted twice

\* a is started with no peer, with the peer b or with the peers b and c,
\* none of them running
HelloInit ==
  /\ status = [n \in Names |-> IF n = "a" THEN "up" ELSE "off"]
  /\ \E p \in { << >>, << "b" >>, << "b", "c" >> } :
       Constructed([n \in Names |-> IF n = "a" THEN p ELSE << >>])

\* the broker publishes hello to a more than once
HelloNext ==
  \/ LockHello(MaxLockHello)
  \/ HandleMessage("a")
  \/ FreeTick("a")
  \/ TickWrite("a")

HelloSpec == HelloInit /\ [][HelloNext]_vars


\* ------------------------------------------- in_range applied on its own

\* no node is running; in_range is about to be applied to ring ids
RangeInit ==
  /\ status = [n \in Names |-> "off"]
  /\ peer_names = [n \in Names |-> << >>]
  /\ node = [n \in Names |-> NewNode(M, n, hash(n), 0)]
  /\ connected = [n \in Names |-> FALSE]
  /\ pings = [n \in Names |-> 0]
  /\ stabilizers = [n \in Names |-> << >>]
  /\ pending = [n \in Names |-> 0]
  /\ inbox = [n \in Names |-> << >>]
  /\ client = << >>
  /\ out = << >>
  /\ ticks = [n \in Names |-> 0]
  /\ round = 0
  /\ hellos = [n \in Names |-> 0]
  /\ requests = << >>
  /\ lock = Unlocked
  /\ threads = NoThreads
  /\ req_socket = {}
  /\ \E id, min, max \in 0 .. MaxId : \E incl \in BOOLEAN :
       call = << [fn |-> "in_range", id |-> id, min |-> min, max |-> max,
                  incl |-> incl, result |-> << >>] >>

\* hash::in_range is applied and returns
ApplyInRange ==
  /\ call # << >>
  /\ call[1].fn = "in_range"
  /\ call[1].result = << >>
  /\ call' = << [call[1] EXCEPT
                   !.result = << in_range(call[1].id, call[1].min,
                                          call[1].max, call[1].incl) >>] >>
  /\ UNCHANGED << status, peer_names, node, connected, pings, stabilizers,
                  pending, inbox, client, out, ticks, round, hellos, requests,
                  sync >>

RangeSpec == RangeInit /\ [][ApplyInRange]_vars


\* ----------------------------------------- the node with the last ring id

\* n53, whose id is 2^M - 1, is started with the peers a and b, which are
\* not running: it is alone on its ring, with a successor list of two
EdgeInit ==
  /\ status = [n \in Names |-> IF n = "n53" THEN "up" ELSE "off"]
  /\ Constructed([n \in Names |-> IF n = "n53" THEN << "a", "b" >> ELSE << >>])

EdgeNext ==
  \/ BrokerHello("n53")
  \/ HandleMessage("n53")
  \/ RoundTick("n53")
  \/ TickWrite("n53")
  \/ NextRound

EdgeSpec == EdgeInit /\ [][EdgeNext]_vars


\* the answers the client has got to the request with this id
Answers(id) == SelectSeq(client, LAMBDA f : f.type = "getResponse" /\ f.id = Some(id))

\* the requests so far that set key k
SetsOf(k) ==
  {i \in 1 .. Len(requests) :
     requests[i].msg.type = "set" /\ requests[i].msg.key = Some(k)}

\* C2: on the ring of the single node a, once a set of a key and the frames
\* it caused have been handled, a later get of that key is answered with
\* getResponse carrying the value that was set.  Stated for the runs in
\* which a is still running when every frame has been handled.
C2_SetThenGet ==
  \A i, j \in 1 .. Len(requests) :
    ( /\ i < j
      /\ requests[i].msg.type = "set"
      /\ requests[j].msg.type = "get"
      /\ requests[j].msg.key = requests[i].msg.key
      /\ SetsOf(Unwrap(requests[i].msg.key)) = {i}
      /\ requests[j].quiet
      /\ Quiescent
      /\ status["a"] = "up" )
    => Answers(Unwrap(requests[j].msg.id))
         = << GetSuccessResponse(Unwrap(requests[j].msg.id),
                                 Unwrap(requests[i].msg.key),
                                 Unwrap(requests[i].msg.value)) >>

\* C3: a get of a key that was never set ends in exactly one getResponse,
\* the error "No such key: <key>" with the id of the get.  Stated for the
\* runs in which a is still running when every frame has been handled.
C3_GetMissing ==
  \A j \in 1 .. Len(requests) :
    ( /\ requests[j].msg.type = "get"
      /\ SetsOf(Unwrap(requests[j].msg.key)) = {}
      /\ Quiescent
      /\ status["a"] = "up" )
    => Answers(Unwrap(requests[j].msg.id))
         = << GetFailResponse(Unwrap(requests[j].msg.id),
                              Unwrap(requests[j].msg.key)) >>


\* ------------------------------- two gets on the ring of the single node a

\* the client sends a get of plum and a get of corn, which both hash to 192
PairNext ==
  \/ BrokerHello("a")
  \/ \E req \in {GetMsg(3, "plum"), GetMsg(4, "corn")} : ClientRequest("a", req)
  \/ HandleMessage("a")
  \/ FreeTick("a")
  \/ TickWrite("a")

PairSpec == SoloInit /\ [][PairNext]_vars

\* -------------------------------------- one handler or one tick on its own

\* the node whose handlers are applied
UnitName == "a"

\* a live entry and a placeholder entry of a successor list
Live(n) == [node |-> EntryOf(n), failed |-> FALSE]
Placeholder(n) == [node |-> EntryOf(n), failed |-> TRUE]

\* the node a with this successor list and the successor that goes with it;
\* with the successor n53 its fingers are those of the ring a, n53, n3, b
UnitNode(list, pred, store, replicas, queries) ==
  LET n0 == NewNode(M, UnitName, hash(UnitName), Len(list))
      far == list[1].node.node_name = "n53"
  IN [n0 EXCEPT
        !.successor = list[1].node,
        !.successor_list = list,
        !.finger_table =
          [i \in DOMAIN @ |->
             [start |-> @[i].start,
              node |-> IF i = 0 THEN list[1].node
                       ELSE IF far /\ i = M - 1 THEN EntryOf("b")
                       ELSE IF far THEN EntryOf("n53")
                       ELSE @[i].node]],
        !.predecessor = pred,
        !.store = store,
        !.replica_store = replicas,
        !.current_queries = queries]

\* the states of a.  Its successor list: with two peers and both successors
\* known, with the second entry still the placeholder of Node::new, with
\* itself as the second successor, before any successor is known, alone, and
\* with one peer.  Its replica_store: none, the replicas of b and c, a
\* replica of c with a value that the primary store of a does not have, and
\* replicas of b and c that hold the same key with two values.
UnitNodes ==
  LET UnitLists ==
        { << Live("b"), Live("c") >>, << Live("c"), Live("b") >>,
          << Live("n53"), Live("n3") >>,
          << Live("b"), Placeholder("a") >>, << Live("b"), Live("a") >>,
          << Placeholder("a"), Placeholder("a") >>,
          << Live("a"), Placeholder("a") >>,
          << Live("b") >> }
      UnitStores ==
        { << >>,
          ("plum" :> "red"),
          ("apple" :> "green") @@ ("banana" :> "yellow") @@ ("plum" :> "red") }
      UnitReplicas ==
        { << >>,
          (152 :> (("apple" :> "green") @@ ("plum" :> "red")))
            @@ (180 :> ("banana" :> "yellow")),
          (180 :> ("banana" :> "brown")),
          (152 :> ("apple" :> "green")) @@ (180 :> ("apple" :> "red")) }
      UnitQueries ==
        { << >>,
          (153 :> QueryType("FixSuccessor", "", ""))
            @@ (192 :> QueryType("Get", "plum", ""))
            @@ (216 :> QueryType("FixFinger", "", ""))
            @@ (64 :> QueryType("Set", "apple", "green")) }
  IN { UnitNode(l, p, s, r, q) :
         l \in UnitLists,
         p \in {None} \cup {Some(EntryOf(n)) : n \in {"a", "b", "c", "n3"}},
         s \in UnitStores, r \in UnitReplicas, q \in UnitQueries }

\* HandlerInner::handle_messages: the fields that each arm takes with
\* expect(); keys and values are the one field kvs
Required ==
  [t \in {"set"} |-> {"id", "key", "value"}]
    @@ [t \in {"get", "retrieve"} |-> {"id", "key"}]
    @@ [t \in {"join", "rejoin"} |-> {"destination", "source"}]
    @@ [t \in {"joinAck", "rejoinAck", "getPred", "ping"} |-> {"source"}]
    @@ [t \in {"findSucc"} |-> {"query_id", "source"}]
    @@ [t \in {"findSuccResponse"} |-> {"node_name", "node_id", "query_id"}]
    @@ [t \in {"notify"} |-> {"source", "node_id", "failed"}]
    @@ [t \in {"store"} |-> {"key", "value"}]
    @@ [t \in {"transferRequest"} |-> {"source", "min", "max"}]
    @@ [t \in {"transferKeys"} |-> {"kvs"}]
    @@ [t \in {"duplicate"} |-> {"id", "kvs"}]

\* the frames published to a
UnitFrames ==
  {Notify(n, UnitName, hash(n), f) : n \in {"a", "b", "c", "n3"}, f \in BOOLEAN}
  \cup {GetPredResponse("b", UnitName, Some(hash(n)), Some(n)) :
          n \in {"a", "b", "c", "n3", "r"}}
  \cup {GetPredResponse("b", UnitName, None, None),
        GetPredResponse("b", UnitName, Some(hash("r")), None)}
  \cup {FindSuccResponse("b", UnitName, n, hash(n), q, i) :
          n \in {"a", "b", "c"}, q \in {153, 192, 216, 64, 99},
          i \in {None, Some(0), Some(1), Some(3)}}
  \cup {FindSucc("b", UnitName, q, None) : q \in {153, 170, 100, 200, 184, 64}}
  \cup {Store("b", UnitName, "plum", "blue"), Store("b", UnitName, "apple", "green")}
  \cup {TransferKeys("b", UnitName, kvs) :
          kvs \in {<< >>, ("apple" :> "red") @@ ("banana" :> "yellow")}}
  \cup {Duplicate(n, UnitName, hash(n), kvs) :
          n \in {"b", "c"}, kvs \in {<< >>, ("apple" :> "red")}}
  \cup {TransferRequest("b", UnitName, mn, mx) :
          mn \in {64, 152, 184}, mx \in {64, 168, 184}}
  \cup {[Blank EXCEPT !.type = "leave", !.source = Some("b"),
                      !.destination = Some(UnitName)]}
  \cup (LET Full(t) ==
              [Blank EXCEPT !.type = t, !.source = Some("b"),
                            !.destination = Some(UnitName), !.id = Some(1),
                            !.key = Some("plum"), !.value = Some("blue"),
                            !.query_id = Some(153), !.node_name = Some("c"),
                            !.node_id = Some(hash("c")), !.failed = Some(TRUE),
                            !.min = Some(64), !.max = Some(184),
                            !.kvs = Some(("apple" :> "red"))]
        IN UNION {{[Full(t) EXCEPT ![f] = None] : f \in Required[t]} :
                    t \in DOMAIN Required})

\* a is running, in one of these states, and either one frame has been
\* published to it or its stabilizer is between the two phases of a tick;
\* call keeps the state and the frame it starts with
UnitInit ==
  /\ status = [n \in Names |-> IF n = UnitName THEN "up" ELSE "off"]
  /\ peer_names = [n \in Names |-> << >>]
  /\ \E nd \in UnitNodes :
       /\ node = [n \in Names |->
                    IF n = UnitName THEN nd ELSE NewNode(M, n, hash(n), 0)]
       /\ \E box \in {<< >>} \cup {<< m >> : m \in UnitFrames} :
            /\ inbox = [n \in Names |-> IF n = UnitName THEN box ELSE << >>]
            /\ pending = [n \in Names |->
                            IF n = UnitName /\ box = << >> THEN 1 ELSE 0]
            /\ \E k \in (IF box = << >> THEN 0 .. FAILURE_THRESHOLD ELSE {0}) :
                 /\ pings = [n \in Names |-> IF n = UnitName THEN k ELSE 0]
                 /\ call = << [node |-> nd, inbox |-> box, pings |-> k] >>
  /\ connected = [n \in Names |-> n = UnitName]
  /\ stabilizers = [n \in Names |-> IF n = UnitName THEN << 0 >> ELSE << >>]
  /\ client = << >>
  /\ out = << >>
  /\ ticks = [n \in Names |-> 0]
  /\ round = 0
  /\ hellos = [n \in Names |-> IF n = UnitName THEN 1 ELSE 0]
  /\ requests = << >>
  /\ lock = Unlocked /\ threads = NoThreads /\ req_socket = {}

UnitNext == HandleMessage(UnitName) \/ TickWrite(UnitName)

UnitSpec == UnitInit /\ [][UnitNext]_vars

\* ------------------------------------------------------ claims C4 and C5

\* two timer periods have passed since b handled its hello, every running
\* stabilizer has ticked in each, and every frame has been handled
TwoRoundsAfterJoin ==
  /\ status["b"] = "up"
  /\ stabilizers["b"] # << >>
  /\ round >= stabilizers["b"][1] + 2
  /\ RoundComplete
  /\ Quiescent

TwoCycle ==
  /\ node["a"].successor = NodeEntry(hash("b"), "b")
  /\ node["a"].predecessor = Some(NodeEntry(hash("b"), "b"))
  /\ node["b"].successor = NodeEntry(hash("a"), "a")
  /\ node["b"].predecessor = Some(NodeEntry(hash("a"), "a"))

\* C4: a is running and has received hello, b is started with the peer a
\* and receives hello; within two stabilization rounds the successor and
\* the predecessor of a are b and those of b are a.
C4_TwoNodeJoin == (connected["a"] /\ TwoRoundsAfterJoin) => TwoCycle

\* C5: the key plum, which a alone holds and whose hash is in
\* (a.id, b.id], is within two stabilization rounds of the join of b in the
\* store of b, with its value, and no longer in the store of a.
C5_KeyHandoff ==
  (connected["a"] /\ TwoRoundsAfterJoin)
    => /\ "plum" \in DOMAIN node["b"].store
       /\ node["b"].store["plum"] = "red"
       /\ "plum" \notin DOMAIN node["a"].store

\* the same two, for a node a that was given a peer
C4_WithPeer == (peer_names["a"] # << >>) => C4_TwoNodeJoin
C5_WithPeer == (peer_names["a"] # << >>) => C5_KeyHandoff


\* ---------------------------------------------------- claims C1 and C10

\* JoinSetSpec reaches the state RingSpec starts in
RingReached ==
  /\ node["a"] = RingNodeA
  /\ node["b"] = RingNodeB
  /\ Quiescent
  /\ pings = [n \in Names |-> 0]

SamePointers(n) ==
  /\ Len(node[n].successor_list) >= 1
  /\ node[n].finger_table[0].node = node[n].successor
  /\ node[n].successor_list[1].node = node[n].successor

\* C1: in every reachable state of a running node, successor,
\* finger_table[0].node and successor_list[0].node name the same node.
C1_SamePointers == \A n \in Names : status[n] = "up" => SamePointers(n)

\* the node n holds no key of another node: every key of its store hashes
\* into (predecessor.id, self.id]
Owned(n) ==
  \A k \in DOMAIN node[n].store :
    /\ IsSome(node[n].predecessor)
    /\ in_range(hash(k), Unwrap(node[n].predecessor).id, node[n].id.id, TRUE)

\* C10: on a ring with no further membership change, eventually every key
\* held in the store of a node hashes into (predecessor.id, self.id] of
\* that node.
C10_KeysOwned == <>(\A n \in JoinNodes : Owned(n))


\* DetectSpec reaches the state of a that HealSpec starts in
HealReached ==
  /\ node["a"] = HealNodeA
  /\ Quiescent
  /\ pings["a"] = 0


\* ------------------------------------------------------------- claim C6

\* C6: in the ring c -> a -> b -> c, once b has stopped answering, when a
\* has ticked FAILURE_THRESHOLD + 1 times the successor of a is c and the
\* last_failed_successor of a is b.
C6_SuccessorFailure ==
  (status["b"] = "down" /\ ticks["a"] >= FAILURE_THRESHOLD + 1 /\ pending["a"] = 0)
    => /\ node["a"].successor = EntryOf("c")
       /\ IsSome(node["a"].last_failed_successor)
       /\ Unwrap(node["a"].last_failed_successor).node = EntryOf("b")

\* the same for the ring in which a had fetched its second successor: a
\* holds a replica of b
C6_WhenFetched ==
  (hash("b") \in DOMAIN node["a"].replica_store) => C6_SuccessorFailure

\* ------------------------------------------------------------- claim C7

\* a step that is the read phase of a tick of n
IsTickRead(n) == pending'[n] = pending[n] + 1

\* a step in which n handles a frame of this type
IsHandled(n, type) ==
  /\ inbox[n] # << >>
  /\ Head(inbox[n]).type = type
  /\ HandleMessage(n)

HealsPartition(n) ==
  /\ IsTickRead(n) =>
       IF IsSome(node[n].last_failed_successor)
         THEN \E i \in 1 .. Len(out') :
                out'[i] = Rejoin(n, Unwrap(node[n].last_failed_successor).node.node_name)
         ELSE \A i \in 1 .. Len(out') : out'[i].type # "rejoin"
  /\ IsHandled(n, "rejoin") =>
       out' = << RejoinAck(n, Unwrap(Head(inbox[n]).source)) >>
  /\ IsHandled(n, "rejoinAck") =>
       /\ node'[n].last_failed_successor = None
       /\ hash(n) \in DOMAIN node'[n].current_queries
       /\ node'[n].current_queries[hash(n)].kind = "JoinAck"
       /\ out' = << FindSucc(n, Unwrap(Head(inbox[n]).source), hash(n), None) >>
  /\ (~IsSome(node[n].last_failed_successor)
        /\ IsSome(node'[n].last_failed_successor)) =>
       /\ pending'[n] = pending[n] - 1
       /\ pings[n] >= FAILURE_THRESHOLD

\* C7: while last_failed_successor is set, every tick emits
\* rejoin{self, last_failed}; the addressee answers rejoinAck; on rejoinAck
\* the node clears last_failed_successor, records a JoinAck query under its
\* own id and emits findSucc{query_id = self.id} to the acknowledger; after
\* that no tick emits a rejoin until another successor failure sets
\* last_failed_successor.
C7_PartitionHeal == [][\A n \in JoinNodes : HealsPartition(n)]_vars

\* a, which began with last_failed_successor set, has handled the rejoinAck
\* of b, and the read phase of its next tick has just emitted no rejoin
C7_Healed ==
  /\ ~IsSome(node["a"].last_failed_successor)
  /\ ticks["a"] = MaxRounds
  /\ pending["a"] = 1
  /\ out = << stabilize_ring(node["a"], "a"), ping_self("a") >>

\* ------------------------------------------------------------- claim C8

\* the running nodes whose interval (predecessor.id, self.id] holds x
Holders(x) ==
  {n \in Names :
     /\ status[n] = "up"
     /\ IsSome(node[n].predecessor)
     /\ in_range(x, Unwrap(node[n].predecessor).id, node[n].id.id, TRUE)}

\* C8: after the join of b, and no failure, the ring reaches (here: has
\* reached after two stabilization rounds) a state in which every ring id
\* lies in the interval (predecessor.id, self.id] of exactly one node.
C8_Partition ==
  (connected["a"] /\ TwoRoundsAfterJoin)
    => \A x \in 0 .. (Pow2(M) - 1) : Cardinality(Holders(x)) = 1

C8_WithPeer == (peer_names["a"] # << >>) => C8_Partition

\* ------------------------------------------------------------- claim C9

\* a findSucc or findSuccResponse frame for the query q of n is in flight
InFlight(n, q) ==
  \E d \in Names : \E i \in 1 .. Len(inbox[d]) :
    LET f == inbox[d][i]
    IN /\ f.query_id = Some(q)
       /\ \/ f.type = "findSucc" /\ f.source = Some(n)
          \/ f.type = "findSuccResponse" /\ f.destination = Some(n)

\* C9: an entry current_queries[q] exists only while a findSucc or
\* findSuccResponse frame for q, issued on behalf of the node, is in flight;
\* so the table is empty whenever no such frame is in flight.
C9_QueriesInFlight ==
  \A n \in Names :
    status[n] = "up" => \A q \in DOMAIN node[n].current_queries : InFlight(n, q)

\* ------------------------------------------------------------ claim C11

\* a frame that copies or moves keys is waiting at some node
CopyInFlight ==
  \E d \in Names : \E i \in 1 .. Len(inbox[d]) :
    inbox[d][i].type \in {"duplicate", "store", "transferKeys"}

\* the running node s, a live successor of the running node o, holds a
\* replica of o
ReplicaAt(s, o) ==
  /\ s # o
  /\ status[s] = "up"
  /\ status[o] = "up"
  /\ \E i \in 1 .. Len(live_successors(node[o])) :
       live_successors(node[o])[i].node_name = s
  /\ hash(o) \in DOMAIN node[s].replica_store

\* C11: whenever no duplicate, store or transferKeys frame is in flight,
\* the replica of a node o held at a live successor of o equals the primary
\* store of o.
C11_ReplicaMirrors ==
  ~CopyInFlight =>
    \A s, o \in Names :
      ReplicaAt(s, o) => node[s].replica_store[hash(o)] = node[o].store


\* ------------------------------------------------------------ claim C12

\* C12: on the request socket of a node sends and acknowledgements
\* alternate: at most one thread at a time has sent a frame and not yet
\* consumed its acknowledgement.
C12_SendsAlternate == Cardinality(req_socket) <= 1

\* ------------------------------------------------------------ claim C13

\* C13: with a fair hand-off of the lock and a broker that delivers every
\* frame, every tick of a stabilizer gets the shared lock, then the
\* exclusive lock, and completes (the stabilizer waits for its timer
\* again), and the listener dispatches every frame it has read.
C13_TicksComplete ==
  /\ \A t \in Stabilizers :
       (threads[t].pc = "want_read") ~> (threads[t].pc = "sleep")
  /\ (threads[Listener].pc = "want_write") ~> (threads[Listener].pc = "want_read")

\* ------------------------------------------------------------ claim C14

\* C14: after any number of hello frames a node runs one stabilizer, never
\* more.
C14_OneStabilizer == \A n \in Names : Len(stabilizers[n]) <= 1

\* ------------------------------------------------------------ claim C15

\* the frames of this type among the frames fs
OfType(fs, type) == SelectSeq(fs, LAMBDA f : f.type = type)

\* what the handling of a hello at n does
HelloHandled(n) ==
  /\ connected'[n]
  /\ Len(OfType(out', "helloResponse")) = (IF connected[n] THEN 0 ELSE 1)
  /\ Len(OfType(out', "join")) = Len(peer_names[n])
  /\ Len(out') = Len(OfType(out', "helloResponse")) + Len(peer_names[n])
  /\ \A i \in 1 .. Len(peer_names[n]) :
       Cardinality({j \in 1 .. Len(out') :
                      /\ out'[j].type = "join"
                      /\ out'[j].source = Some(n)
                      /\ out'[j].destination = Some(peer_names[n][i])}) = 1
  /\ ~connected[n] => out'[1] = HelloResponse(n)

\* C15: a node emits helloResponse at most once, for the hello it handles
\* while it is not connected, and no other frame makes it emit one; every
\* hello sets connected and emits one join to each configured peer, after
\* the helloResponse if there is one.
C15_HelloResponseOnce ==
  /\ [][/\ \A n \in Names : IsHandled(n, "hello") => HelloHandled(n)
        /\ OfType(client', "helloResponse") # OfType(client, "helloResponse")
             => \E n \in Names : IsHandled(n, "hello") /\ ~connected[n]]_vars
  /\ [](Len(OfType(client, "helloResponse")) <= 1)

\* a with its two peers has handled its second hello, with the two joins
\* and no helloResponse
C15_SecondHello ==
  /\ Len(stabilizers["a"]) = 2
  /\ connected["a"]
  /\ out = << Join("a", "b"), Join("a", "c") >>
  /\ Len(OfType(client, "helloResponse")) = 1

\* ------------------------------------------------------------ claim C16

\* in_range has been applied to the lower bound of an open interval
LowerBoundAsked ==
  /\ call # << >>
  /\ call[1].fn = "in_range"
  /\ call[1].result # << >>
  /\ call[1].id = call[1].min
  /\ ~call[1].incl

\* C16 as stated: for all ring ids a and b, a = b included,
\* in_range(a, a, b, false) is false.
C16_LowerBoundExcluded == LowerBoundAsked => ~call[1].result[1]

\* C16: for all ring ids a and b that differ, in_range(a, a, b, false) is
\* false: the lower bound of an interval is not a member of it.  When
\* a = b the interval is the whole ring and in_range(a, a, a, false) is
\* true.
C16_LowerBoundExcludedUnlessWhole ==
  LowerBoundAsked => (call[1].result[1] <=> call[1].min = call[1].max)

\* in_range has been asked for the lower bound of an interval that wraps
\* around zero, and has answered false
C16_WrappedLowerBound ==
  /\ LowerBoundAsked
  /\ call[1].min > call[1].max
  /\ ~call[1].result[1]

\* ------------------------------------------------------------ claim C17

\* membership in the clockwise interval from min to max
Clockwise(id, min, max, inclusive_upper) ==
  \/ min = max
  \/ inclusive_upper /\ id = max
  \/ min < max /\ min < id /\ id < max
  \/ min > max /\ (id > min \/ id < max)

\* C17: for all id, min, max and both values of inclusive_upper, in_range
\* equals the clockwise membership: min < id < max if min < max, id > min
\* or id < max if min > max, in both cases also id = max when the upper
\* bound is inclusive, and true for every id if min = max.
C17_MatchesReference ==
  (call # << >> /\ call[1].fn = "in_range" /\ call[1].result # << >>)
    => (call[1].result[1]
          <=> Clockwise(call[1].id, call[1].min, call[1].max, call[1].incl))

\* in_range has been asked for the inclusive upper bound of an interval
\* that wraps around zero, and for an id below it
C17_WrappedUpperBound ==
  /\ call # << >>
  /\ call[1].fn = "in_range"
  /\ call[1].min > call[1].max
  /\ call[1].id <= call[1].max
  /\ call[1].incl
  /\ call[1].result = << TRUE >>

\* ------------------------------------------------------------ claim C18

\* the field o of a frame is absent or a ring id
InRing(o) == o = << >> \/ o[1] \in 0 .. (Pow2(M) - 1)

\* C18: every query_id, node_id, pred_id, min and max of a frame a node
\* emits is a ring id, in [0, 2^M).
C18_IdsInRing ==
  \A i \in 1 .. Len(out) :
    /\ InRing(out[i].query_id)
    /\ InRing(out[i].node_id)
    /\ InRing(out[i].pred_id)
    /\ InRing(out[i].min)
    /\ InRing(out[i].max)

\* ------------------------------------------------------------ claim C19

\* the predecessor of n is present and carries the id of n
OwnPredecessor(n) ==
  /\ node[n].predecessor # None
  /\ node[n].predecessor[1].id = node[n].id.id

\* C19: the predecessor of a running node, when present, has an id other
\* than the node's own, or the node is alone: its successor is itself too.
C19_PredecessorNotSelf ==
  \A n \in Names :
    (status[n] = "up" /\ OwnPredecessor(n)) => node[n].successor = node[n].id

\* ------------------------------------------------------------ claim C20

\* every finger i in [1, M) of n points to the true successor of its start
FingersRight(ring, n) ==
  \A i \in 1 .. (M - 1) :
    node[n].finger_table[i].node =
      EntryOf(TrueSuccessor(ring, node[n].finger_table[i].start))

\* C20: on the ring of a, n3 and r, with a fair choice of the finger index,
\* eventually every finger i in [1, M) of each node points to the true
\* successor of its start, and keeps pointing to it.
C20_FingersConverge ==
  (\A n \in FingerNodes : \A i \in 1 .. (M - 1) : []<><<TickWriteAt(n, i)>>_vars)
    => <>[](\A n \in FingerNodes : FingersRight(FingerNodes, n))

\* ------------------------------------------------------------ claim C21

\* a step that is the write phase of a tick of n
IsTickWrite(n) == pending[n] > 0 /\ TickWrite(n)

\* the write phase counted a missed ping and pinged the successor
Pinged(n) ==
  /\ pings'[n] = pings[n] + 1
  /\ OfType(out', "ping") = << Ping(n, node[n].successor.node_name) >>
  /\ OfType(out', "notify") = << >>
  /\ node'[n].successor = node[n].successor
  /\ node'[n].successor_list = node[n].successor_list
  /\ node'[n].last_failed_successor = node[n].last_failed_successor

\* the write phase gave the successor up and told the next one
GaveUp(n) ==
  /\ pings'[n] = 0
  /\ OfType(out', "ping") = << >>
  /\ node'[n].last_failed_successor = Some(Head(node[n].successor_list))
  /\ node'[n].successor = node'[n].successor_list[1].node
  /\ OfType(out', "notify")
       = << Notify(n, node'[n].successor.node_name, node[n].id.id, TRUE) >>

\* the write phase left the count and the successor alone
Idle(n) ==
  /\ pings'[n] = pings[n]
  /\ OfType(out', "ping") = << >>
  /\ OfType(out', "notify") = << >>
  /\ node'[n].successor = node[n].successor
  /\ node'[n].successor_list = node[n].successor_list
  /\ node'[n].last_failed_successor = node[n].last_failed_successor

\* C21: on a tick, ping_successor counts a missed ping and pings the
\* successor if the count is below FAILURE_THRESHOLD and the successor is
\* not the node itself; in every other case it calls successor_failure,
\* emits notify{self -> new successor, self.id, failed} and resets the count.
C21_PingOrGiveUp ==
  [][IsTickWrite(UnitName) =>
       IF pings[UnitName] < FAILURE_THRESHOLD
            /\ node[UnitName].successor.node_name # UnitName
         THEN Pinged(UnitName)
         ELSE GaveUp(UnitName)]_vars

\* C21, amended: a node below the threshold whose successor is itself does
\* nothing; only at the threshold is the successor given up.
C21_PingOrGiveUpAtThreshold ==
  [][IsTickWrite(UnitName) =>
       IF pings[UnitName] >= FAILURE_THRESHOLD THEN GaveUp(UnitName)
       ELSE IF node[UnitName].successor.node_name # UnitName
         THEN Pinged(UnitName)
         ELSE Idle(UnitName)]_vars

\* a with the successors b and c had missed FAILURE_THRESHOLD pings and has
\* ticked: c is its successor, b its last failed successor
C21_GaveUp ==
  /\ call[1].inbox = << >>
  /\ call[1].pings = FAILURE_THRESHOLD
  /\ call[1].node.successor_list = << Live("b"), Live("c") >>
  /\ pending[UnitName] = 0
  /\ pings[UnitName] = 0
  /\ node[UnitName].successor = EntryOf("c")
  /\ node[UnitName].last_failed_successor = Some(Live("b"))
  /\ OfType(out, "notify") = << Notify(UnitName, "c", hash(UnitName), TRUE) >>

\* ------------------------------------------------------------ claim C22

\* a step in which the write phase of a tick of n calls successor_failure
IsSuccessorFailure(n) == IsTickWrite(n) /\ pings[n] >= FAILURE_THRESHOLD

\* the tick pushes the queries of fix_fingers and fix_successors and changes
\* no other one
QueriesKept(before, after) ==
  /\ DOMAIN before.current_queries \subseteq DOMAIN after.current_queries
  /\ \A q \in DOMAIN after.current_queries :
       (q \notin DOMAIN before.current_queries \/ after.current_queries[q] # before.current_queries[q])
         => after.current_queries[q].kind \in {"FixFinger", "FixSuccessor"}

\* the list is shifted left by one with a self entry at the tail, its head
\* is the successor, and the rest of the node is as before
Shifted(before, after) ==
  /\ Len(after.successor_list) = Len(before.successor_list)
  /\ \A i \in 1 .. (Len(before.successor_list) - 1) :
       after.successor_list[i].node = before.successor_list[i + 1].node
  /\ after.successor_list[Len(after.successor_list)].node = before.id
  /\ after.successor = after.successor_list[1].node
  /\ after.finger_table[0].node = after.successor
  /\ \A i \in 1 .. (M - 1) : after.finger_table[i] = before.finger_table[i]
  /\ after.predecessor = before.predecessor
  /\ after.store = before.store
  /\ after.replica_store = before.replica_store
  /\ QueriesKept(before, after)

\* C22: successor_failure marks the current successor as failed and stores
\* it as last_failed_successor, shifts the successor list left by one with
\* a self entry at the tail, so that the old second entry is the successor,
\* finger 0 and the head of the list, and leaves the predecessor, the
\* stores, the replicas and the pending queries as they were.
C22_SuccessorFailure ==
  [][IsSuccessorFailure(UnitName) =>
       /\ IsSome(node'[UnitName].last_failed_successor)
       /\ Unwrap(node'[UnitName].last_failed_successor).node
            = node[UnitName].successor
       /\ Unwrap(node'[UnitName].last_failed_successor).failed
       /\ Shifted(node[UnitName], node'[UnitName])
       /\ Len(node[UnitName].successor_list) >= 2
       /\ node'[UnitName].successor = node[UnitName].successor_list[2].node]_vars

\* C22, amended: the entry taken off the head of the list is stored as it
\* was, the new head has its failed flag cleared, and a list of one entry
\* leaves the node as its own successor.
C22_SuccessorFailureShifts ==
  [][IsSuccessorFailure(UnitName) =>
       /\ node'[UnitName].last_failed_successor
            = Some(Head(node[UnitName].successor_list))
       /\ Shifted(node[UnitName], node'[UnitName])
       /\ ~node'[UnitName].successor_list[1].failed
       /\ \A i \in 2 .. (Len(node[UnitName].successor_list) - 1) :
            node'[UnitName].successor_list[i].failed
              = node[UnitName].successor_list[i + 1].failed
       /\ IF Len(node[UnitName].successor_list) >= 2
            THEN /\ node'[UnitName].successor
                      = node[UnitName].successor_list[2].node
                 /\ node'[UnitName].successor_list[Len(node[UnitName].successor_list)]
                      = Placeholder(UnitName)
            ELSE node'[UnitName].successor = node[UnitName].id]_vars

\* a with the one successor b has given b up: a is its own successor, and
\* the entry of b is kept, not marked as failed
C22_LoneSuccessorFailed ==
  /\ call[1].inbox = << >>
  /\ call[1].pings = FAILURE_THRESHOLD
  /\ call[1].node.successor_list = << Live("b") >>
  /\ pending[UnitName] = 0
  /\ node[UnitName].successor_list = << Live(UnitName) >>
  /\ node[UnitName].successor = EntryOf(UnitName)
  /\ node[UnitName].finger_table[0].node = EntryOf(UnitName)
  /\ node[UnitName].last_failed_successor = Some(Live("b"))

\* the frame m has every field that the arm of its type requires
HasFields(m) ==
  m.type \in DOMAIN Required => \A f \in Required[m.type] : m[f] # None

\* a step in which n handles a frame of this type that has its fields
IsServed(n, type) == IsHandled(n, type) /\ HasFields(Head(inbox[n]))

\* ------------------------------------------------------------ claim C23

\* a step in which n handles the answer to a FixSuccessor query that names
\* an entry of its successor list
IsFixSuccessor(n) ==
  /\ IsServed(n, "findSuccResponse")
  /\ Unwrap(Head(inbox[n]).query_id) \in DOMAIN node[n].current_queries
  /\ node[n].current_queries[Unwrap(Head(inbox[n]).query_id)].kind = "FixSuccessor"
  /\ IsSome(Head(inbox[n]).id)
  /\ Unwrap(Head(inbox[n]).id) \in 0 .. (Len(node[n].successor_list) - 1)

\* what fix_successor is to return for entry i of before and this name
ShouldDuplicate(before, i, name) ==
  /\ \/ before.successor_list[i + 1].node.node_name # name
     \/ before.successor_list[i + 1].failed
  /\ name # before.id.node_name

\* C23: fix_successor(i, node) replaces entry i of the successor list with
\* node and clears its failed flag; the handler emits one duplicate of the
\* whole primary store to node exactly when (the name of the entry changes
\* or the entry was failed) and node is not the node itself.
C23_FixSuccessor ==
  [][IsFixSuccessor(UnitName) =>
       LET m == Head(inbox[UnitName])
           i == Unwrap(m.id)
           succ == NodeEntry(Unwrap(m.node_id), Unwrap(m.node_name))
       IN /\ node'[UnitName].successor_list
               = [node[UnitName].successor_list EXCEPT ![i + 1] =
                    [node |-> succ, failed |-> FALSE]]
          /\ node'[UnitName].store = node[UnitName].store
          /\ out' = IF ShouldDuplicate(node[UnitName], i, succ.node_name)
                      THEN << Duplicate(UnitName, succ.node_name, hash(UnitName),
                                        node[UnitName].store) >>
                      ELSE << >>]_vars

\* a with the successors b and itself, not yet fetched, was told that its
\* second successor is c, and has sent c its three keys
C23_Duplicated ==
  /\ call[1].inbox = << FindSuccResponse("b", UnitName, "c", hash("c"), 153, Some(1)) >>
  /\ call[1].node.successor_list = << Live("b"), Placeholder(UnitName) >>
  /\ 153 \in DOMAIN call[1].node.current_queries
  /\ DOMAIN call[1].node.store = {"apple", "banana", "plum"}
  /\ inbox[UnitName] = << >>
  /\ node[UnitName].successor_list = << Live("b"), Live("c") >>
  /\ out = << Duplicate(UnitName, "c", hash(UnitName), call[1].node.store) >>

\* a with the successors b and itself was told that its second successor
\* is itself, and has sent nothing
C23_NotToSelf ==
  /\ call[1].inbox = << FindSuccResponse("b", UnitName, UnitName, hash(UnitName), 153, Some(1)) >>
  /\ call[1].node.successor_list = << Live("b"), Placeholder(UnitName) >>
  /\ 153 \in DOMAIN call[1].node.current_queries
  /\ inbox[UnitName] = << >>
  /\ node[UnitName].successor_list = << Live("b"), Live(UnitName) >>
  /\ out = << >>

\* ------------------------------------------------------------ claim C24

\* a step in which n, which has a predecessor, handles a notify with this
\* failed flag
IsNotified(n, failed) ==
  /\ IsServed(n, "notify")
  /\ Head(inbox[n]).failed = Some(failed)
  /\ IsSome(node[n].predecessor)

\* the store of after is the store of before and, over it, every entry of
\* the replicas of before whose owner is in (min, max]; of a key that two
\* of these replicas hold, one of the two values is kept
Merged(before, after, min, max) ==
  LET owners == {r \in DOMAIN before.replica_store : in_range(r, min, max, TRUE)}
      merged == UNION {DOMAIN before.replica_store[r] : r \in owners}
  IN /\ DOMAIN after.store = DOMAIN before.store \cup merged
     /\ \A k \in merged :
          \E r \in owners : /\ k \in DOMAIN before.replica_store[r]
                            /\ after.store[k] = before.replica_store[r][k]
     /\ \A k \in DOMAIN before.store \ merged : after.store[k] = before.store[k]

\* frames is one duplicate of the store of nd, owned by nd, for each entry
\* of its successor list that is not failed and not nd itself
SentToLive(nd, frames) ==
  LET idx == {i \in 1 .. Len(nd.successor_list) :
                /\ ~nd.successor_list[i].failed
                /\ nd.successor_list[i].node.node_name # nd.id.node_name}
  IN /\ Len(frames) = Cardinality(idx)
     /\ \A j \in 1 .. Len(frames) :
          /\ frames[j].type = "duplicate"
          /\ frames[j].source = Some(nd.id.node_name)
          /\ frames[j].id = Some(nd.id.id)
          /\ frames[j].kvs = Some(nd.store)
     /\ \A i \in idx :
          Cardinality({j \in 1 .. Len(frames) :
             frames[j].destination = Some(nd.successor_list[i].node.node_name)})
            = Cardinality({k \in idx :
                nd.successor_list[k].node = nd.successor_list[i].node})

\* C24: a node with the predecessor P that handles notify{source, node_id,
\* failed = true} merges into its store every entry of every replica whose
\* owner is in (node_id, P.id], that of P among them, takes the notifier as
\* its predecessor wherever it is, and sends its store to its live
\* successors.
C24_FailedNotify ==
  [][IsNotified(UnitName, TRUE) =>
       LET m == Head(inbox[UnitName])
           P == Unwrap(node[UnitName].predecessor)
       IN /\ Merged(node[UnitName], node'[UnitName], Unwrap(m.node_id), P.id)
          /\ P.id \in DOMAIN node[UnitName].replica_store
               => \A k \in DOMAIN node[UnitName].replica_store[P.id] :
                    k \in DOMAIN node'[UnitName].store
          /\ node'[UnitName].predecessor
               = Some(NodeEntry(Unwrap(m.node_id), Unwrap(m.source)))
          /\ node'[UnitName].replica_store = node[UnitName].replica_store
          /\ SentToLive(node'[UnitName], out')]_vars

\* a with the predecessor b and the replicas of b and c was told by c that
\* b has failed: it has the keys of b, not those of c, c is its predecessor
\* and b and c have been sent the two keys
C24_Reclaimed ==
  /\ call[1].inbox = << Notify("c", UnitName, hash("c"), TRUE) >>
  /\ call[1].node.predecessor = Some(EntryOf("b"))
  /\ call[1].node.store = << >>
  /\ DOMAIN call[1].node.replica_store = {hash("b"), hash("c")}
  /\ call[1].node.successor_list = << Live("b"), Live("c") >>
  /\ inbox[UnitName] = << >>
  /\ node[UnitName].store = ("apple" :> "green") @@ ("plum" :> "red")
  /\ node[UnitName].predecessor = Some(EntryOf("c"))
  /\ out = << Duplicate(UnitName, "b", hash(UnitName), node[UnitName].store),
              Duplicate(UnitName, "c", hash(UnitName), node[UnitName].store) >>

\* ------------------------------------------------------------ claim C25

\* the keys of the store of nd that hash into (min, max]
KeysIn(nd, min, max) == {k \in DOMAIN nd.store : in_range(hash(k), min, max, TRUE)}

\* C25: a node with the predecessor P that handles notify{source, node_id,
\* failed = false} takes the notifier as its predecessor if node_id is in
\* (P.id, self.id), both excluded, and, if the notifier is not the node
\* itself, takes the keys that hash into (P.id, node_id] out of its store
\* and sends them in one transferKeys; otherwise it changes and sends
\* nothing.  A node with no predecessor takes the notifier and sends
\* transferRequest{min = node_id, max = self.id} to its successor.
C25_LiveNotify ==
  [][(IsServed(UnitName, "notify") /\ Head(inbox[UnitName]).failed = Some(FALSE)) =>
       LET m == Head(inbox[UnitName])
           notifier == NodeEntry(Unwrap(m.node_id), Unwrap(m.source))
           nd == node[UnitName]
       IN IF ~IsSome(nd.predecessor)
            THEN /\ node'[UnitName] = [nd EXCEPT !.predecessor = Some(notifier)]
                 /\ out' = << TransferRequest(UnitName, nd.successor.node_name,
                                              notifier.id, nd.id.id) >>
          ELSE IF ~in_range(notifier.id, Unwrap(nd.predecessor).id, nd.id.id, FALSE)
            THEN node'[UnitName] = nd /\ out' = << >>
          ELSE IF notifier.node_name = UnitName
            THEN /\ node'[UnitName] = [nd EXCEPT !.predecessor = Some(notifier)]
                 /\ out' = << >>
          ELSE LET keys == KeysIn(nd, Unwrap(nd.predecessor).id, notifier.id)
               IN /\ node'[UnitName]
                       = [nd EXCEPT !.predecessor = Some(notifier),
                                    !.store = Restrict(nd.store, DOMAIN nd.store \ keys)]
                  /\ out' = << TransferKeys(UnitName, notifier.node_name,
                                            Restrict(nd.store, keys)) >>]_vars

\* a with the predecessor b and three keys was notified by c, which is
\* between b and a: c is its predecessor and has been sent banana, the one
\* key between b and c
C25_KeysHandedOver ==
  /\ call[1].inbox = << Notify("c", UnitName, hash("c"), FALSE) >>
  /\ call[1].node.predecessor = Some(EntryOf("b"))
  /\ DOMAIN call[1].node.store = {"apple", "banana", "plum"}
  /\ inbox[UnitName] = << >>
  /\ node[UnitName].predecessor = Some(EntryOf("c"))
  /\ DOMAIN node[UnitName].store = {"apple", "plum"}
  /\ out = << TransferKeys(UnitName, "c", ("banana" :> "yellow")) >>

\* ------------------------------------------------------------ claim C26

\* C26: handling getPredResponse changes the successor only when pred_id
\* and pred_name are both there and pred_id is in (self.id, successor.id),
\* both excluded; then the successor, finger 0 and the head of the
\* successor list become that node, not failed.  In every case one
\* notify{failed = false, node_id = self.id} goes to the successor, the new
\* one if it has changed.
C26_GetPredResponse ==
  [][IsServed(UnitName, "getPredResponse") =>
       LET m == Head(inbox[UnitName])
           nd == node[UnitName]
       IN /\ IF /\ IsSome(m.pred_id)
                /\ IsSome(m.pred_name)
                /\ in_range(Unwrap(m.pred_id), nd.id.id, nd.successor.id, FALSE)
               THEN LET p == NodeEntry(Unwrap(m.pred_id), Unwrap(m.pred_name))
                    IN node'[UnitName]
                         = [nd EXCEPT !.successor = p,
                                      !.finger_table[0].node = p,
                                      !.successor_list[1] = Live(p.node_name)]
               ELSE node'[UnitName] = nd
          /\ out' = << Notify(UnitName, node'[UnitName].successor.node_name,
                              nd.id.id, FALSE) >>]_vars

\* a with the successor b was told that the predecessor of b is n3, which
\* is between a and b: n3 is its successor and has been notified
C26_CloserSuccessor ==
  /\ call[1].inbox = << GetPredResponse("b", UnitName, Some(hash("n3")), Some("n3")) >>
  /\ call[1].node.successor = EntryOf("b")
  /\ inbox[UnitName] = << >>
  /\ node[UnitName].successor = EntryOf("n3")
  /\ node[UnitName].finger_table[0].node = EntryOf("n3")
  /\ Head(node[UnitName].successor_list) = Live("n3")
  /\ out = << Notify(UnitName, "n3", hash(UnitName), FALSE) >>

\* ------------------------------------------------------------ claim C27

\* the node of the highest finger of nd whose node is in (nd.id, id), both
\* excluded, or nd itself when there is none
HighestFingerBefore(nd, id) ==
  LET fits == {i \in 0 .. (M - 1) :
                 in_range(nd.finger_table[i].node.id, nd.id.id, id, FALSE)}
  IN IF fits = {} THEN nd.id
     ELSE nd.finger_table[CHOOSE i \in fits : \A j \in fits : j <= i].node

\* C27: find_predecessor(id) finds the node itself exactly when id is in
\* (self.id, successor.id]; otherwise it gives the node of the highest
\* finger whose node is in (self.id, id), or the node itself when there is
\* none.  find_successor answers with a findSuccResponse that names the
\* successor in the first case and forwards the findSucc to that node in
\* the second.
C27_FindSuccessor ==
  [][IsServed(UnitName, "findSucc") =>
       LET m == Head(inbox[UnitName])
           src == Unwrap(m.source)
           id == Unwrap(m.query_id)
           nd == node[UnitName]
       IN /\ node'[UnitName] = nd
          /\ find_predecessor(nd, id).found
               <=> in_range(id, nd.id.id, nd.successor.id, TRUE)
          /\ IF in_range(id, nd.id.id, nd.successor.id, TRUE)
               THEN /\ find_predecessor(nd, id).node = nd.id
                    /\ out' = << FindSuccResponse(UnitName, src, nd.successor.node_name,
                                                  nd.successor.id, id, m.id) >>
               ELSE /\ find_predecessor(nd, id).node = HighestFingerBefore(nd, id)
                    /\ out' = << FindSucc(src, HighestFingerBefore(nd, id).node_name,
                                          id, m.id) >> ]_vars

\* a with the successor n53 and the last finger b was asked by b for the
\* successor of 153, which is not between a and n53: it has sent the
\* question on to b, its highest finger before 153
C27_Forwarded ==
  /\ call[1].inbox = << FindSucc("b", UnitName, 153, None) >>
  /\ call[1].node.successor = EntryOf("n53")
  /\ call[1].node.finger_table[M - 1].node = EntryOf("b")
  /\ call[1].node.finger_table[0].node = EntryOf("n53")
  /\ inbox[UnitName] = << >>
  /\ out = << FindSucc("b", "b", 153, None) >>

\* a with the successor n53 was asked for the successor of 200, which is
\* between a and n53: it has answered n53
C27_Answered ==
  /\ call[1].inbox = << FindSucc("b", UnitName, 200, None) >>
  /\ call[1].node.successor = EntryOf("n53")
  /\ inbox[UnitName] = << >>
  /\ out = << FindSuccResponse(UnitName, "b", "n53", hash("n53"), 200, None) >>

\* ------------------------------------------------------------ claim C28

\* C28: transfer_kvs_range(min, max), called for a transferRequest, takes
\* out of the store exactly the entries whose key hashes into (min, max]
\* clockwise and returns them, each key with its value; the other entries
\* stay as they are, and with min = max the whole store is taken.
C28_TransferRange ==
  [][IsServed(UnitName, "transferRequest") =>
       LET m == Head(inbox[UnitName])
           min == Unwrap(m.min)
           max == Unwrap(m.max)
           nd == node[UnitName]
           keys == {k \in DOMAIN nd.store : Clockwise(hash(k), min, max, TRUE)}
       IN /\ min = max => keys = DOMAIN nd.store
          /\ node'[UnitName]
               = [nd EXCEPT !.store = Restrict(nd.store, DOMAIN nd.store \ keys)]
          /\ out' = << TransferKeys(UnitName, Unwrap(m.source),
                                    Restrict(nd.store, keys)) >>]_vars

\* a with three keys was asked by b for the keys in (184, 64]: apple, which
\* hashes to 64, and plum, past 184, have gone to b, and banana stays
C28_Extracted ==
  /\ call[1].inbox = << TransferRequest("b", UnitName, 184, 64) >>
  /\ DOMAIN call[1].node.store = {"apple", "banana", "plum"}
  /\ inbox[UnitName] = << >>
  /\ node[UnitName].store = ("banana" :> "yellow")
  /\ out = << TransferKeys(UnitName, "b", ("apple" :> "green") @@ ("plum" :> "red")) >>

\* ------------------------------------------------------------ claim C29

\* C29: a node that handles store or transferKeys has put every pair it
\* was sent into its store, over the value the key had, and has then sent
\* one duplicate, owned by itself and with its whole store, to each entry
\* of its successor list that is not failed and not itself, and to no
\* other; a node that handles duplicate{id, keys, values} has these pairs,
\* and no other, as replica_store[id], and its other replicas as before.
C29_StoreAndDuplicate ==
  [][LET m == Head(inbox[UnitName])
         nd == node[UnitName]
     IN /\ IsServed(UnitName, "store") =>
             /\ node'[UnitName]
                  = [nd EXCEPT !.store =
                       [k \in DOMAIN nd.store \cup {Unwrap(m.key)} |->
                          IF k = Unwrap(m.key) THEN Unwrap(m.value) ELSE nd.store[k]]]
             /\ SentToLive(node'[UnitName], out')
        /\ IsServed(UnitName, "transferKeys") =>
             /\ node'[UnitName]
                  = [nd EXCEPT !.store =
                       [k \in DOMAIN nd.store \cup DOMAIN Unwrap(m.kvs) |->
                          IF k \in DOMAIN Unwrap(m.kvs)
                            THEN Unwrap(m.kvs)[k] ELSE nd.store[k]]]
             /\ SentToLive(node'[UnitName], out')
        /\ IsServed(UnitName, "duplicate") =>
             /\ node'[UnitName]
                  = [nd EXCEPT !.replica_store =
                       [r \in DOMAIN nd.replica_store \cup {Unwrap(m.id)} |->
                          IF r = Unwrap(m.id) THEN Unwrap(m.kvs)
                          ELSE nd.replica_store[r]]]
             /\ out' = << >>]_vars

\* a with the successor b, a second entry not yet fetched and plum = red
\* was told to store plum = blue: it holds the new value and has sent its
\* store to b alone
C29_Stored ==
  /\ call[1].inbox = << Store("b", UnitName, "plum", "blue") >>
  /\ call[1].node.store = ("plum" :> "red")
  /\ call[1].node.successor_list = << Live("b"), Placeholder(UnitName) >>
  /\ inbox[UnitName] = << >>
  /\ node[UnitName].store = ("plum" :> "blue")
  /\ out = << Duplicate(UnitName, "b", hash(UnitName), ("plum" :> "blue")) >>

\* a with replicas of b and c was sent a new replica of c: that of c holds
\* the new pairs alone and that of b is as before
C29_ReplicaReplaced ==
  /\ call[1].inbox = << Duplicate("c", UnitName, hash("c"), ("apple" :> "red")) >>
  /\ DOMAIN call[1].node.replica_store = {hash("b"), hash("c")}
  /\ call[1].node.replica_store[hash("c")] = ("banana" :> "yellow")
  /\ inbox[UnitName] = << >>
  /\ node[UnitName].replica_store[hash("c")] = ("apple" :> "red")
  /\ node[UnitName].replica_store[hash("b")] = call[1].node.replica_store[hash("b")]
  /\ out = << >>

\* ------------------------------------------------------------ claim C30

\* the message types that handle_messages has an arm for
KnownTypes ==
  {"hello", "set", "get", "join", "joinAck", "findSucc", "findSuccResponse",
   "getPred", "getPredResponse", "notify", "retrieve", "store",
   "transferRequest", "transferKeys", "duplicate", "ping", "pong", "pingSelf",
   "rejoin", "rejoinAck"}

\* a step in which n handles a findSuccResponse to a query it does not
\* have, or a frame of a type it does not know
IsDiscarded(n) ==
  /\ inbox[n] # << >>
  /\ HandleMessage(n)
  /\ \/ /\ Head(inbox[n]).type = "findSuccResponse"
        /\ HasFields(Head(inbox[n]))
        /\ Unwrap(Head(inbox[n]).query_id) \notin DOMAIN node[n].current_queries
     \/ Head(inbox[n]).type \notin KnownTypes

\* C30: a findSuccResponse whose query_id is not in current_queries, and a
\* frame of an unknown type, are discarded: the node, with its pointers,
\* stores, replicas and queries, and its count of missed pings are as
\* before, and no frame is sent.
C30_Discarded ==
  [][IsDiscarded(UnitName) =>
       /\ node'[UnitName] = node[UnitName]
       /\ pings'[UnitName] = pings[UnitName]
       /\ connected'[UnitName] = connected[UnitName]
       /\ status'[UnitName] = "up"
       /\ out' = << >>
       /\ inbox'[UnitName] = Tail(inbox[UnitName])]_vars

\* a with four queries has handled an answer to the query 99, which is not
\* one of them: it is as it was and has sent nothing
C30_UnknownQuery ==
  /\ call[1].inbox = << FindSuccResponse("b", UnitName, "c", hash("c"), 99, Some(0)) >>
  /\ DOMAIN call[1].node.current_queries = {153, 192, 216, 64}
  /\ call[1].node.successor = EntryOf("b")
  /\ inbox[UnitName] = << >>
  /\ status[UnitName] = "up"
  /\ node[UnitName] = call[1].node
  /\ out = << >>

\* a has handled a frame of the type leave: it is as it was and has sent
\* nothing
C30_UnknownType ==
  /\ call[1].inbox # << >>
  /\ call[1].inbox[1].type = "leave"
  /\ inbox[UnitName] = << >>
  /\ status[UnitName] = "up"
  /\ node[UnitName] = call[1].node
  /\ out = << >>

\* ------------------------------------------------------------ claim C31

\* a step in which n handles a frame that lacks a field its type requires
IsMissingField(n) ==
  /\ inbox[n] # << >>
  /\ HandleMessage(n)
  /\ Head(inbox[n]).type \in DOMAIN Required
  /\ \E f \in Required[Head(inbox[n]).type] : Head(inbox[n])[f] = None

\* C31: a frame that lacks a field required for its type aborts its handler
\* before the handler has changed the node or sent a frame.
C31_MissingFieldAborts ==
  [][IsMissingField(UnitName) =>
       /\ status'[UnitName] = "panicked"
       /\ node'[UnitName] = node[UnitName]
       /\ pings'[UnitName] = pings[UnitName]
       /\ connected'[UnitName] = connected[UnitName]
       /\ out' = << >>
       /\ client' = client]_vars

\* a with the predecessor b was sent a joinAck without a source: its
\* handler has stopped, a still has its predecessor and has sent nothing
C31_Aborted ==
  /\ call[1].inbox # << >>
  /\ call[1].inbox[1].type = "joinAck"
  /\ call[1].inbox[1].source = None
  /\ call[1].node.predecessor = Some(EntryOf("b"))
  /\ status[UnitName] = "panicked"
  /\ node[UnitName] = call[1].node
  /\ out = << >>

\* ------------------------------------------------------------ claim C32

\* the indexes (from 0) of the entries of the successor list of nd that are
\* not failed and not the last one
Selectable(nd) ==
  {j \in 0 .. (Len(nd.successor_list) - 2) : ~nd.successor_list[j + 1].failed}

\* the FixSuccessor queries that a step of n pushes
PushedFixSuccessor(n) ==
  {q \in DOMAIN node'[n].current_queries :
     /\ node'[n].current_queries[q].kind = "FixSuccessor"
     /\ q \notin DOMAIN node[n].current_queries
          \/ node[n].current_queries[q] # node'[n].current_queries[q]}

\* the tick asks for the successor of an entry j that is not failed and
\* not the last one, to be put in slot j + 1, and for no other
SelectsLive(n) ==
  /\ \A q \in PushedFixSuccessor(n) :
       \E j \in Selectable(node[n]) :
         /\ q = node[n].successor_list[j + 1].node.id + 1
         /\ \E k \in 1 .. Len(out') :
              /\ out'[k].type \in {"findSucc", "findSuccResponse"}
              /\ out'[k].query_id = Some(q)
              /\ out'[k].id = Some(j + 1)
  /\ Selectable(node[n]) # {}
       => \E j \in Selectable(node[n]) :
            node[n].successor_list[j + 1].node.id + 1
              \in DOMAIN node'[n].current_queries

\* a step, after a tick of n, in which n handles the answer to the
\* FixSuccessor query of that tick
IsRefresh(n) ==
  /\ call[1].inbox = << >>
  /\ IsFixSuccessor(n)
  /\ HasFields(Head(inbox[n]))

\* C32: fix_successors draws its index among the entries of the successor
\* list that are not failed and not the last one, and the last slot of the
\* list is never refreshed by it.
C32_LastSlotKept ==
  [][/\ IsTickWrite(UnitName) => SelectsLive(UnitName)
     /\ IsRefresh(UnitName) =>
          node'[UnitName].successor_list[Len(node[UnitName].successor_list)]
            = node[UnitName].successor_list[Len(node[UnitName].successor_list)]]_vars

\* C32, amended: the answer for the entry j goes into slot j + 1, so that
\* it is the first slot that fix_successors never refreshes; the last one
\* is refreshed when j is the entry before it.
C32_FirstSlotKept ==
  [][/\ IsTickWrite(UnitName) => SelectsLive(UnitName)
     /\ IsRefresh(UnitName) =>
          /\ Unwrap(Head(inbox[UnitName]).id) - 1 \in Selectable(call[1].node)
          /\ Head(node'[UnitName].successor_list)
               = Head(node[UnitName].successor_list)
          /\ node'[UnitName].successor_list[Unwrap(Head(inbox[UnitName]).id) + 1]
               = [node |-> NodeEntry(Unwrap(Head(inbox[UnitName]).node_id),
                                     Unwrap(Head(inbox[UnitName]).node_name)),
                  failed |-> FALSE]]_vars

\* a, alone with a list of two entries, has ticked and handled its own
\* answer: the last slot of its list, a placeholder before, is refreshed
C32_LastSlotRefreshed ==
  /\ call[1].inbox = << >>
  /\ call[1].node.successor_list = << Live(UnitName), Placeholder(UnitName) >>
  /\ pending[UnitName] = 0
  /\ inbox[UnitName] = << >>
  /\ node[UnitName].successor_list = << Live(UnitName), Live(UnitName) >>
  /\ hash(UnitName) + 1 \notin DOMAIN node[UnitName].current_queries

\* ------------------------------------------------------------ claim C33

\* the frame f has the id and the key of one get that the client has sent
FromOneGet(f) ==
  \E i \in 1 .. Len(requests) :
    /\ requests[i].msg.type = "get"
    /\ requests[i].msg.id = f.id
    /\ requests[i].msg.key = f.key

\* C33: every retrieve that a node sends, and every getResponse with a
\* value, has the client id of a get and the key of that same get, also
\* when the keys of several outstanding gets hash to the same id.
C33_RetrievePairs ==
  \A k \in 1 .. Len(out) :
    (out[k].type = "retrieve" \/ (out[k].type = "getResponse" /\ IsSome(out[k].key)))
      => FromOneGet(out[k])

\* ------------------------------------------------------------ claim C34

\* the client has the setResponse of this set
SetAnswered(id, k, v) ==
  \E i \in 1 .. Len(client) : client[i] = SetResponse(id, k, v)

\* a store of this pair has been handled at a, the one node of the ring
StoreHandled(k, v) ==
  k \in DOMAIN node["a"].store /\ node["a"].store[k] = v

\* C34: on the ring of the single node a, which keeps running, every set
\* that was answered with setResponse leads to a store of its key and value
\* being handled, whatever else is under way.
C34_SetStored ==
  \A req \in {r \in SoloRequests : r.type = "set"} :
    SetAnswered(Unwrap(req.id), Unwrap(req.key), Unwrap(req.value))
      ~> (StoreHandled(Unwrap(req.key), Unwrap(req.value)) \/ status["a"] # "up")

\* ------------------------------------------------------------ claim C35

\* a step in which n handles a frame and sends a findSucc to itself
ForwardsToSelf(n) ==
  /\ inbox[n] # << >>
  /\ HandleMessage(n)
  /\ \E k \in 1 .. Len(out') :
       out'[k].type = "findSucc" /\ out'[k].destination = Some(n)

\* C35: on a ring whose pointers are stable, find_successor never forwards
\* a findSucc to the node that is handling it, whatever the query id, the
\* id of that node included.
C35_NeverToSelf ==
  [][\A n \in FingerNodes : ~ForwardsToSelf(n)]_vars

\* ------------------------------------------------------------ claim C36

\* a step in which n aborts.  Every frame of the join of b through a is
\* built by the broker or by a node and carries all of its fields, so the
\* only aborts are those of set_finger, fix_successor, set_successor and
\* successor_failure indexing past the end of a Vec
IndexOutOfBounds(n) ==
  status[n] = "up" /\ status'[n] = "panicked"

\* C36: for every peer count, zero included, no handler step and no
\* stabilizer step indexes the finger table or the successor list out of
\* bounds.
C36_InBounds ==
  [][\A n \in JoinNodes : ~IndexOutOfBounds(n)]_vars

\* ------------------------------------------------------------ claim C37

\* the pings of n to s that no pong has answered at n yet: those waiting at
\* s and those whose pong is waiting at n
Unanswered(n, s) ==
  Cardinality({k \in 1 .. Len(inbox[s]) :
                 inbox[s][k].type = "ping" /\ inbox[s][k].source = Some(n)})
  + Cardinality({k \in 1 .. Len(inbox[n]) :
                   inbox[n][k].type = "pong" /\ inbox[n][k].source = Some(s)})

\* a write phase of the stabilizer of n in which ping_successor calls
\* successor_failure
GivesUp(n) ==
  /\ pings[n] >= FAILURE_THRESHOLD
  /\ TickWrite(n)
  /\ node'[n].last_failed_successor # node[n].last_failed_successor

\* C37: successor_failure only removes a successor to which
\* FAILURE_THRESHOLD pings were sent without a pong handled in between, so
\* a successor whose pongs are all handled before the next tick is never
\* removed.
C37_RemovedAfterThreshold ==
  [][\A n \in FingerNodes :
       GivesUp(n) =>
         Unanswered(n, node[n].successor.node_name) >= FAILURE_THRESHOLD]_vars

\* ------------------------------------------------------------ claim C38

\* n is about to handle a notify with failed = true
IsFailedNotify(n) ==
  /\ status[n] = "up"
  /\ inbox[n] # << >>
  /\ Head(inbox[n]).type = "notify"
  /\ Head(inbox[n]).failed = Some(TRUE)

\* plum was red when a started and the one set of the client makes it blue:
\* every snapshot with plum -> red is older than a store with plum -> blue
NewerReplaced(n) ==
  /\ "plum" \in DOMAIN node[n].store
  /\ node[n].store["plum"] = "blue"
  /\ node'[n].store["plum"] = "red"

\* C38: handling a notify with failed = true never replaces a value that is
\* in the primary store by a value of the same key from an older replica
\* snapshot.
C38_NewerKept ==
  [][\A n \in JoinNodes :
       (IsFailedNotify(n) /\ HandleMessage(n)) => ~NewerReplaced(n)]_vars

\* ------------------------------------------------------------ claim C39

\* the nodes that have the key k in their primary store
Primaries(k) == {n \in JoinNodes : k \in DOMAIN node[n].store}

\* a transferKeys frame with the key k is waiting at some node
InTransfer(k) ==
  \E n \in JoinNodes :
    \E i \in 1 .. Len(inbox[n]) :
      /\ inbox[n][i].type = "transferKeys"
      /\ k \in DOMAIN Unwrap(inbox[n][i].kvs)

\* no node has stopped or aborted
NoFailure == \A n \in JoinNodes : status[n] \notin {"down", "panicked"}

\* C39: as long as no node fails, every key that was put into a primary
\* store is in some primary store or in a transferKeys frame in flight, and
\* when no frame is in flight no key is in two primary stores.
C39_KeysConserved ==
  NoFailure =>
    /\ \A k \in DOMAIN JoinStore : Primaries(k) # {} \/ InTransfer(k)
    /\ Quiescent => \A k \in DOMAIN JoinStore : Cardinality(Primaries(k)) <= 1

=============================================================================
